---- MODULE Spec2Model ----
(***************************************************************************)
(* Model of pnger's LSB steganography core: the framed header codec        *)
(* (src/strategy/lsb/header.rs), the body codec (src/strategy/lsb/data.rs),*)
(* the bit codec (src/strategy/lsb/utils.rs) and the two orchestrating     *)
(* operations LSBEmbedder::embed / LSBEmbedder::extract                     *)
(* (src/strategy/lsb/mod.rs), the payload obfuscation                      *)
(* (src/obfuscation.rs) and the options API built on them (src/lib.rs).    *)
(*                                                                         *)
(* Bytes are integers 0..255, sample buffers are sequences of bytes.       *)
(* Rust slices are 0-based; sequences here are 1-based, so the sample byte *)
(* with index i is image_data[i + 1].                                      *)
(***************************************************************************)
EXTENDS Integers, Sequences, FiniteSets, TLC

VARIABLES image_data, pc, payload, embedCfg, embedRes, extractCfg, extractRes, preImage, flip,
          obf, second, call

vars == <<image_data, pc, payload, embedCfg, embedRes, extractCfg, extractRes, preImage, flip,
          obf, second, call>>

(***************************************************************************)
(* Bounds of the model (inputs the callers hand in).                       *)
(***************************************************************************)
\* Longest payload handed to embed, in bytes.
MaxPayloadLen == 2

\* Longest XOR key handed to the obfuscation layer, in bytes.
MaxKeyLen == 2

(***************************************************************************)
(* Program constants.                                                      *)
(***************************************************************************)
MAGIC == <<80, 78, 71, 82>>

VERSION == 1

MAGIC_SIZE == 4

VERSION_SIZE == 1

FLAGS_SIZE == 1

PAYLOAD_SIZE_SIZE == 4

CRC32_SIZE == 4

FIXED_HEADER_SIZE == MAGIC_SIZE + VERSION_SIZE + FLAGS_SIZE + PAYLOAD_SIZE_SIZE + CRC32_SIZE

SEED_SIZE == 32

RANDOM_PATTERN == 1

SEED_EMBEDDED == 2

(***************************************************************************)
(* Machine arithmetic on unsigned integers, bit by bit.                    *)
(***************************************************************************)
RECURSIVE Pow2(_)
Pow2(n) == IF n = 0 THEN 1 ELSE 2 * Pow2(n - 1)

RECURSIVE BitAnd(_, _)
BitAnd(a, b) ==
    IF a = 0 \/ b = 0 THEN 0
    ELSE (IF a % 2 = 1 /\ b % 2 = 1 THEN 1 ELSE 0) + 2 * BitAnd(a \div 2, b \div 2)

RECURSIVE BitOr(_, _)
BitOr(a, b) ==
    IF a = 0 THEN b
    ELSE IF b = 0 THEN a
    ELSE (IF a % 2 = 1 \/ b % 2 = 1 THEN 1 ELSE 0) + 2 * BitOr(a \div 2, b \div 2)

RECURSIVE BitXor(_, _)
BitXor(a, b) ==
    IF a = 0 THEN b
    ELSE IF b = 0 THEN a
    ELSE (((a % 2) + (b % 2)) % 2) + 2 * BitXor(a \div 2, b \div 2)

\* !x on a u8
NotU8(x) == 255 - x

\* x << n on a u8 (bits shifted out are lost)
ShlU8(x, n) == (x * Pow2(n)) % 256

\* x >> n
Shr(x, n) == x \div Pow2(n)

\* A u32 is kept as its four big-endian bytes <<b3, b2, b1, b0>>: this is
\* u32::to_be_bytes of a length that fits the model's integers.
to_be_bytes(n) ==
    << (n \div 16777216) % 256, (n \div 65536) % 256, (n \div 256) % 256, n % 256 >>

\* The u32 as a number (payload_size as usize); the model only converts
\* values below 2^31.
from_be_bytes(b) == b[1] * 16777216 + b[2] * 65536 + b[3] * 256 + b[4]

W32Xor(a, b) == << BitXor(a[1], b[1]), BitXor(a[2], b[2]), BitXor(a[3], b[3]), BitXor(a[4], b[4]) >>

W32Shr1(a) ==
    << a[1] \div 2,
       (a[2] \div 2) + (a[1] % 2) * 128,
       (a[3] \div 2) + (a[2] % 2) * 128,
       (a[4] \div 2) + (a[3] % 2) * 128 >>

W32Shr8(a) == <<0, a[1], a[2], a[3]>>

(***************************************************************************)
(* CRC-32/IEEE as computed by crc32fast::Hasher: reflected polynomial      *)
(* 0xEDB88320, initial value 0xFFFFFFFF, final XOR 0xFFFFFFFF.             *)
(***************************************************************************)
CRC_POLY == <<237, 184, 131, 32>>

CRC_ONES == <<255, 255, 255, 255>>

RECURSIVE CrcTableEntry(_, _)
CrcTableEntry(c, k) ==
    IF k = 0 THEN c
    ELSE CrcTableEntry(IF c[4] % 2 = 1 THEN W32Xor(CRC_POLY, W32Shr1(c)) ELSE W32Shr1(c), k - 1)

\* The 256-entry table, built once as 16 rows of 16 entries
RECURSIVE CrcTableRow(_, _)
CrcTableRow(r, k) ==
    IF k = 0 THEN <<>>
    ELSE Append(CrcTableRow(r, k - 1), CrcTableEntry(<<0, 0, 0, 16 * r + k - 1>>, 8))

RECURSIVE CrcTableRows(_)
CrcTableRows(r) == IF r = 0 THEN <<>> ELSE Append(CrcTableRows(r - 1), CrcTableRow(r - 1, 16))

CrcTable == CrcTableRows(16)

CrcTableAt(n) == CrcTable[(n \div 16) + 1][(n % 16) + 1]

RECURSIVE CrcUpdate(_, _, _)
CrcUpdate(crc, data, i) ==
    IF i > Len(data) THEN crc
    ELSE CrcUpdate(W32Xor(CrcTableAt(BitXor(crc[4], data[i])), W32Shr8(crc)), data, i + 1)

Crc32(data) == W32Xor(CrcUpdate(CRC_ONES, data, 1), CRC_ONES)

(***************************************************************************)
(* Bit codec (utils.rs).                                                   *)
(***************************************************************************)
\* Fault variant: the bit value is shifted in without the & 1
embed_bit_unmasked(target_bit_index, carrier, bit) ==
    LET mask == NotU8(ShlU8(1, target_bit_index))
    IN  BitOr(BitAnd(carrier, mask), ShlU8(bit, target_bit_index))

\* (carrier & !(1 << bit_pos)) | ((bit & 1) << bit_pos)
embed_bit(target_bit_index, carrier, bit) ==
    LET mask == NotU8(ShlU8(1, target_bit_index))
    IN  BitOr(BitAnd(carrier, mask), ShlU8(BitAnd(bit, 1), target_bit_index))

\* (carrier & (1 << bit_pos)) >> bit_pos
\* Fault variant: the bit position is ignored and bit 0 is read
extract_bit_lsb_only(target_bit_index, carrier) == carrier % 2

extract_bit(target_bit_index, carrier) ==
    LET mask == ShlU8(1, target_bit_index)
    IN  Shr(BitAnd(carrier, mask), target_bit_index)

(***************************************************************************)
(* Header codec (header.rs).                                               *)
(* A FixedHeader is [version, flags, payload_size, crc32]; payload_size    *)
(* and crc32 are u32 kept as four big-endian bytes.  An Option is a        *)
(* sequence of length 0 (None) or 1 (Some).                                *)
(***************************************************************************)
contains(flags, flag) == BitAnd(flags, flag) = flag

NoFixed == [version |-> 0, flags |-> 0, payload_size |-> <<0, 0, 0, 0>>, crc32 |-> <<0, 0, 0, 0>>]

\* Fault variant: the magic bytes are covered by the CRC as well
prepare_crc_data_with_magic(fixed) == MAGIC \o <<fixed.version, fixed.flags>> \o fixed.payload_size

prepare_crc_data(fixed) == <<fixed.version, fixed.flags>> \o fixed.payload_size

calculate_crc(fixed) == Crc32(prepare_crc_data(fixed))

\* Fault variant: the stored CRC is not compared
validate_unchecked(fixed) == "Ok"

\* Ok, or the HeaderError of a failed validation
validate(fixed) == IF fixed.crc32 # calculate_crc(fixed) THEN "CrcMismatch" ELSE "Ok"

calculate_total_header_size(fixed) ==
    FIXED_HEADER_SIZE + (IF contains(fixed.flags, SEED_EMBEDDED) THEN SEED_SIZE ELSE 0)

\* The binrw reader derived for FixedHeader: the magic, then each field in
\* order, the version assertion right after the version byte is read.
FixedHeader_read_be(data) ==
    IF Len(data) < MAGIC_SIZE THEN [err |-> "Io", fixed |-> NoFixed]
    ELSE IF SubSeq(data, 1, MAGIC_SIZE) # MAGIC THEN [err |-> "BadMagic", fixed |-> NoFixed]
    ELSE IF Len(data) < MAGIC_SIZE + VERSION_SIZE THEN [err |-> "Io", fixed |-> NoFixed]
    ELSE IF data[5] # VERSION THEN [err |-> "AssertFail", fixed |-> NoFixed]
    ELSE IF Len(data) < FIXED_HEADER_SIZE THEN [err |-> "Io", fixed |-> NoFixed]
    ELSE [err |-> "None",
          fixed |-> [version |-> data[5], flags |-> data[6],
                     payload_size |-> SubSeq(data, 7, 10), crc32 |-> SubSeq(data, 11, 14)]]

\* Fault variant: the two parse failures are mapped to each other's kind
map_binrw_error_swapped(e) ==
    CASE e = "AssertFail" -> "InvalidMagic"
      [] e = "BadMagic" -> "UnsupportedVersion"
      [] e = "Io" -> "Io"
      [] OTHER -> "InsufficientData"

\* The map_err of both read_from_bytes functions
map_binrw_error(e) ==
    CASE e = "AssertFail" -> "UnsupportedVersion"
      [] e = "BadMagic" -> "InvalidMagic"
      [] e = "Io" -> "Io"
      [] OTHER -> "InsufficientData"

FixedHeader_read_from_bytes(data) ==
    IF Len(data) < FIXED_HEADER_SIZE THEN [err |-> "InsufficientData", fixed |-> NoFixed]
    ELSE LET r == FixedHeader_read_be(data)
         IN  IF r.err # "None" THEN [err |-> map_binrw_error(r.err), fixed |-> NoFixed]
             ELSE IF validate(r.fixed) # "Ok" THEN [err |-> validate(r.fixed), fixed |-> NoFixed]
             ELSE [err |-> "Ok", fixed |-> r.fixed]

CompleteHeader_read_from_bytes(data) ==
    IF Len(data) < FIXED_HEADER_SIZE
    THEN [err |-> "InsufficientData", fixed |-> NoFixed, seed |-> <<>>]
    ELSE LET r == FixedHeader_read_be(data)
         IN  IF r.err # "None"
             THEN [err |-> map_binrw_error(r.err), fixed |-> NoFixed, seed |-> <<>>]
             ELSE IF validate(r.fixed) # "Ok"
             THEN [err |-> validate(r.fixed), fixed |-> NoFixed, seed |-> <<>>]
             ELSE IF contains(r.fixed.flags, SEED_EMBEDDED)
             THEN LET required_pos == FIXED_HEADER_SIZE + SEED_SIZE
                  IN  IF Len(data) < required_pos
                      THEN [err |-> "InsufficientData", fixed |-> NoFixed, seed |-> <<>>]
                      ELSE [err |-> "Ok", fixed |-> r.fixed,
                            seed |-> << SubSeq(data, FIXED_HEADER_SIZE + 1, required_pos) >>]
             ELSE [err |-> "Ok", fixed |-> r.fixed, seed |-> <<>>]

header_size(header) == FIXED_HEADER_SIZE + (IF header.seed # <<>> THEN SEED_SIZE ELSE 0)

\* impl From<HeaderError> for PngerError
From_HeaderError(e) ==
    CASE e = "InsufficientSpace" -> [variant |-> "PayloadError", cause |-> e]
      [] e = "Io" -> [variant |-> "FileIo", cause |-> e]
      [] OTHER -> [variant |-> "InvalidFormat", cause |-> e]

\* A RuntimePattern is [kind, seed, embed_seed]
build_header(pattern, payload_size) ==
    LET random == pattern.kind = "Random"
        flags  == (IF random THEN RANDOM_PATTERN ELSE 0)
                  + (IF random /\ pattern.embed_seed THEN SEED_EMBEDDED ELSE 0)
        fixed0 == [version |-> VERSION, flags |-> flags,
                   payload_size |-> to_be_bytes(payload_size), crc32 |-> <<0, 0, 0, 0>>]
    IN  [fixed |-> [fixed0 EXCEPT !.crc32 = calculate_crc(fixed0)],
         seed |-> IF random /\ pattern.embed_seed THEN << pattern.seed >> ELSE <<>>]

\* The bytes write_header pushes through its cursor, in order
header_bytes(header) ==
    MAGIC \o <<header.fixed.version>> \o <<header.fixed.flags>>
          \o header.fixed.payload_size \o header.fixed.crc32
          \o (IF header.seed # <<>> THEN header.seed[1] ELSE <<>>)

\* Fault variant: the cursor position is reported in bits
write_header_pos_in_bits(bytes, header) ==
    LET hb == header_bytes(header)
    IN  [bytes |-> hb \o SubSeq(bytes, Len(hb) + 1, Len(bytes)), pos |-> 8 * Len(hb)]

\* Fault variant: each header byte only sets the low bit of its sample byte
write_header_low_bit(bytes, header) ==
    LET hb == header_bytes(header)
    IN  [bytes |-> [i \in 1..Len(bytes) |->
                       IF i <= Len(hb) THEN embed_bit(0, bytes[i], hb[i]) ELSE bytes[i]],
         pos |-> Len(hb)]

\* The cursor over the header slice overwrites its leading bytes and returns
\* its final position
write_header(bytes, header) ==
    LET hb == header_bytes(header)
    IN  [bytes |-> hb \o SubSeq(bytes, Len(hb) + 1, Len(bytes)), pos |-> Len(hb)]

required_size(pattern) ==
    FIXED_HEADER_SIZE + (IF pattern.kind = "Random" /\ pattern.embed_seed THEN SEED_SIZE ELSE 0)

HeaderEmbedder_embed(bytes, pattern, payload_size) ==
    LET header == build_header(pattern, payload_size)
        required == header_size(header)
    IN  IF Len(bytes) < required
        THEN [err |-> "InsufficientSpace", bytes |-> bytes, pos |-> 0]
        ELSE LET w == write_header(bytes, header)
             IN  [err |-> "Ok", bytes |-> w.bytes, pos |-> w.pos]

(***************************************************************************)
(* Seed service (crypto.rs).  The CSPRNG and Argon2id are external: the    *)
(* CSPRNG is a nondeterministic choice of the caller of from_config, and  *)
(* the key derivation is a fixed deterministic function of the password    *)
(* (fixed salt, no other input).  Both are taken not to fail.              *)
(***************************************************************************)
RECURSIVE SumBytes(_, _)
SumBytes(s, i) == IF i > Len(s) THEN 0 ELSE s[i] + SumBytes(s, i + 1)

ZeroSeed == [i \in 1..SEED_SIZE |-> 0]

derive_seed_from_password(password) ==
    [i \in 1..SEED_SIZE |-> (SumBytes(password, 1) * 7 + Len(password) * 31 + i * 13) % 256]

(***************************************************************************)
(* Configuration (mod.rs).  An LSBConfig is                                *)
(* [bit_index, pattern, seed_source, password, seed] with pattern Linear   *)
(* or Random; seed_source (Auto, Password, Manual) only means something   *)
(* for Random.  A RuntimePattern is [kind, seed, embed_seed].              *)
(***************************************************************************)
LSBConfig_linear ==
    [bit_index |-> 0, pattern |-> "Linear", seed_source |-> "None",
     password |-> <<>>, seed |-> ZeroSeed]

LSBConfig_random ==
    [bit_index |-> 0, pattern |-> "Random", seed_source |-> "Auto",
     password |-> <<>>, seed |-> ZeroSeed]

with_bit_index(config, index) == [config EXCEPT !.bit_index = index]

with_password(config, password) ==
    IF config.pattern = "Random"
    THEN [config EXCEPT !.seed_source = "Password", !.password = password, !.seed = ZeroSeed]
    ELSE config

with_seed(config, seed) ==
    IF config.pattern = "Random"
    THEN [config EXCEPT !.seed_source = "Manual", !.seed = seed, !.password = <<>>]
    ELSE config

RuntimeLinear == [kind |-> "Linear", seed |-> ZeroSeed, embed_seed |-> FALSE]

\* Fault variant: a password-derived seed is embedded like an auto seed
from_config_embed_password(config, csprng) ==
    IF config.pattern = "Linear" THEN RuntimeLinear
    ELSE CASE config.seed_source = "Auto" ->
                [kind |-> "Random", seed |-> csprng, embed_seed |-> TRUE]
           [] config.seed_source = "Password" ->
                [kind |-> "Random", seed |-> derive_seed_from_password(config.password),
                 embed_seed |-> TRUE]
           [] OTHER ->
                [kind |-> "Random", seed |-> config.seed, embed_seed |-> FALSE]

\* Fault variant: the password seed is derived with a fresh random salt
from_config_random_salt(config, csprng) ==
    IF config.pattern = "Linear" THEN RuntimeLinear
    ELSE CASE config.seed_source = "Auto" ->
                [kind |-> "Random", seed |-> csprng, embed_seed |-> TRUE]
           [] config.seed_source = "Password" ->
                [kind |-> "Random",
                 seed |-> derive_seed_from_password(config.password \o csprng),
                 embed_seed |-> FALSE]
           [] OTHER ->
                [kind |-> "Random", seed |-> config.seed, embed_seed |-> FALSE]

\* RuntimeConfig::from_config; csprng is what generate_random_seed returns
from_config(config, csprng) ==
    IF config.pattern = "Linear" THEN RuntimeLinear
    ELSE CASE config.seed_source = "Auto" ->
                [kind |-> "Random", seed |-> csprng, embed_seed |-> TRUE]
           [] config.seed_source = "Password" ->
                [kind |-> "Random", seed |-> derive_seed_from_password(config.password),
                 embed_seed |-> FALSE]
           [] OTHER ->
                [kind |-> "Random", seed |-> config.seed, embed_seed |-> FALSE]

NoError == [variant |-> "Ok", cause |-> "Ok"]

\* Fault variant: the caller's own seed material wins over the embedded seed
reconstruct_seed_config_first(header, config) ==
    IF config.pattern = "Random" /\ config.seed_source = "Password"
    THEN [err |-> NoError, seed |-> derive_seed_from_password(config.password)]
    ELSE IF config.pattern = "Random" /\ config.seed_source = "Manual"
    THEN [err |-> NoError, seed |-> config.seed]
    ELSE IF header.seed # <<>>
    THEN [err |-> NoError, seed |-> header.seed[1]]
    ELSE [err |-> [variant |-> "InvalidFormat", cause |-> "AutoWithoutSeed"], seed |-> ZeroSeed]

\* Fault variant: Auto without an embedded seed falls back to the zero seed
reconstruct_seed_auto_zero(header, config) ==
    LET seed_was_embedded == contains(header.fixed.flags, SEED_EMBEDDED)
    IN  IF seed_was_embedded
        THEN IF header.seed # <<>>
             THEN [err |-> NoError, seed |-> header.seed[1]]
             ELSE [err |-> [variant |-> "InvalidFormat", cause |-> "SeedFlagWithoutSeed"],
                   seed |-> ZeroSeed]
        ELSE IF config.pattern = "Random"
             THEN CASE config.seed_source = "Password" ->
                         [err |-> NoError, seed |-> derive_seed_from_password(config.password)]
                    [] config.seed_source = "Manual" ->
                         [err |-> NoError, seed |-> config.seed]
                    [] OTHER -> [err |-> NoError, seed |-> ZeroSeed]
             ELSE [err |-> [variant |-> "InvalidFormat", cause |-> "LinearExpected"],
                   seed |-> ZeroSeed]

reconstruct_seed(header, config) ==
    LET seed_was_embedded == contains(header.fixed.flags, SEED_EMBEDDED)
    IN  IF seed_was_embedded
        THEN IF header.seed # <<>>
             THEN [err |-> NoError, seed |-> header.seed[1]]
             ELSE [err |-> [variant |-> "InvalidFormat", cause |-> "SeedFlagWithoutSeed"],
                   seed |-> ZeroSeed]
        ELSE IF config.pattern = "Random"
             THEN CASE config.seed_source = "Password" ->
                         [err |-> NoError, seed |-> derive_seed_from_password(config.password)]
                    [] config.seed_source = "Manual" ->
                         [err |-> NoError, seed |-> config.seed]
                    [] OTHER ->
                         [err |-> [variant |-> "InvalidFormat", cause |-> "AutoWithoutSeed"],
                          seed |-> ZeroSeed]
             ELSE [err |-> [variant |-> "InvalidFormat", cause |-> "LinearExpected"],
                   seed |-> ZeroSeed]

from_header_and_config(header, config) ==
    IF contains(header.fixed.flags, RANDOM_PATTERN)
    THEN LET r == reconstruct_seed(header, config)
         IN  IF r.err # NoError THEN [err |-> r.err, pattern |-> RuntimeLinear]
             ELSE [err |-> NoError,
                   pattern |-> [kind |-> "Random", seed |-> r.seed,
                                embed_seed |-> contains(header.fixed.flags, SEED_EMBEDDED)]]
    ELSE [err |-> NoError, pattern |-> RuntimeLinear]

(***************************************************************************)
(* Seed material and buffer lengths of the model's callers.                *)
(***************************************************************************)
Passwords == {<<112, 119>>, <<120>>}

ManualSeeds == {[i \in 1..SEED_SIZE |-> 66], [i \in 1..SEED_SIZE |-> 67]}

CsprngSeeds == {[i \in 1..SEED_SIZE |-> (i * 7) % 256], [i \in 1..SEED_SIZE |-> 255 - i]}

RECURSIVE SetToSeq(_)
SetToSeq(S) == IF S = {} THEN <<>> ELSE LET x == CHOOSE x \in S : TRUE IN <<x>> \o SetToSeq(S \ {x})

KnownSeedList ==
    SetToSeq(ManualSeeds \cup CsprngSeeds \cup {derive_seed_from_password(p) : p \in Passwords})

\* Buffer lengths around the capacity boundaries of the two header sizes
BufLens ==
    {FIXED_HEADER_SIZE - 1, FIXED_HEADER_SIZE + 7, FIXED_HEADER_SIZE + SEED_SIZE + 7}
    \cup {FIXED_HEADER_SIZE + 8 * k : k \in 0..MaxPayloadLen}
    \cup {FIXED_HEADER_SIZE + SEED_SIZE + 8 * k : k \in 0..MaxPayloadLen}

MaxBufLen == FIXED_HEADER_SIZE + SEED_SIZE + 8 * MaxPayloadLen

(***************************************************************************)
(* Body codec (data.rs).                                                   *)
(* The ChaCha20 generator is external; it is stood in for by a small      *)
(* deterministic generator keyed by the 32 seed bytes.  What the body     *)
(* codec relies on is kept: the shuffle is Fisher-Yates driven by a        *)
(* stream that is a function of the seed alone.                            *)
(***************************************************************************)
\* Sum of seed[i] * (2i + 1) over i in lo+1..hi
RECURSIVE SeedSum(_, _, _)
SeedSum(seed, lo, hi) ==
    IF lo >= hi THEN 0
    ELSE IF lo + 1 = hi THEN seed[hi] * (2 * hi + 1)
    ELSE LET mid == (lo + hi) \div 2
         IN  SeedSum(seed, lo, mid) + SeedSum(seed, mid, hi)

rng_from_seed(seed) == (1 + SeedSum(seed, 0, Len(seed))) % 65537

rng_next(state) == (state * 75 + 74) % 65537

swap(v, i, j) == [v EXCEPT ![i + 1] = v[j + 1], ![j + 1] = v[i + 1]]

\* One iteration of SliceRandom::shuffle,
\*   for i in (1..len).rev() { self.swap(i, rng.gen_range(0..=i)) },
\* on r = [v, state]; iteration m has i = len - m.
shuffle_step(r, m) ==
    LET i == Len(r.v) - m
        s2 == rng_next(r.state)
    IN  [v |-> swap(r.v, i, s2 % (i + 1)), state |-> s2]

\* Iterations lo+1..hi of the loop, in order
RECURSIVE shuffle_steps(_, _, _)
shuffle_steps(r, lo, hi) ==
    IF lo >= hi \/ Len(r.v) < 2 THEN r
    ELSE IF lo + 1 = hi THEN shuffle_step(r, hi)
    ELSE LET mid == (lo + hi) \div 2
         IN  shuffle_steps(shuffle_steps(r, lo, mid), mid, hi)

shuffle(v, seed) ==
    shuffle_steps([v |-> v, state |-> rng_from_seed(seed)], 0, Len(v) - 1).v

\* (lo..hi).map(|i| i as u32).collect()
RECURSIVE range(_, _)
range(lo, hi) ==
    IF lo >= hi THEN <<>>
    ELSE IF lo + 1 = hi THEN <<lo>>
    ELSE LET mid == (lo + hi) \div 2 IN range(lo, mid) \o range(mid, hi)

\* Fault variant: the index vector starts at 1
ordered_from_one(n) == range(1, n + 1)

ordered(n) == range(0, n)

\* The shuffles for the seeds and lengths the model's callers use, computed
\* once: ShuffleMemo[k][n + 1] = shuffle(ordered(n), KnownSeedList[k]).
RECURSIVE ShuffleMemoRow(_, _, _)
ShuffleMemoRow(seed, lo, hi) ==
    IF lo >= hi THEN <<>>
    ELSE IF lo + 1 = hi THEN << shuffle(ordered(lo), seed) >>
    ELSE LET mid == (lo + hi) \div 2
         IN  ShuffleMemoRow(seed, lo, mid) \o ShuffleMemoRow(seed, mid, hi)

RECURSIVE ShuffleMemoRows(_)
ShuffleMemoRows(k) ==
    IF k = 0 THEN <<>>
    ELSE Append(ShuffleMemoRows(k - 1), ShuffleMemoRow(KnownSeedList[k], 0, MaxBufLen + 1))

ShuffleMemo == ShuffleMemoRows(Len(KnownSeedList))

shuffled(n, seed) ==
    IF n <= MaxBufLen /\ \E k \in 1..Len(KnownSeedList) : KnownSeedList[k] = seed
    THEN ShuffleMemo[CHOOSE k \in 1..Len(KnownSeedList) : KnownSeedList[k] = seed][n + 1]
    ELSE shuffle(ordered(n), seed)

\* BodyEmbedder::new: the index vector over the body slice
BodyEmbedder_new(bytes, pattern, bit_index) ==
    [target_bit_index |-> bit_index,
     index |-> 0,
     indices |-> IF pattern.kind = "Linear" THEN ordered(Len(bytes))
                 ELSE shuffled(Len(bytes), pattern.seed),
     bytes |-> bytes,
     panicked |-> FALSE]

\* write_u8 from bit position bit_pos on; a panic stops the embedder where it is
RECURSIVE write_u8_from(_, _, _)
write_u8_from(e, byte, bit_pos) ==
    IF bit_pos >= 8 \/ e.panicked THEN e
    ELSE IF e.index >= Len(e.indices) THEN [e EXCEPT !.panicked = TRUE]
    ELSE LET image_index == e.indices[e.index + 1]
             bit == BitAnd(Shr(byte, bit_pos), 1)
         IN  write_u8_from(
                 [e EXCEPT !.bytes[image_index + 1] =
                               embed_bit(e.target_bit_index, e.bytes[image_index + 1], bit),
                           !.index = e.index + 1],
                 byte, bit_pos + 1)

\* Fault variant: the most significant bit of the byte is written first
write_u8_msb_first(e, byte) ==
    write_u8_from(e, 128 * (byte % 2) + 64 * ((byte \div 2) % 2) + 32 * ((byte \div 4) % 2)
                     + 16 * ((byte \div 8) % 2) + 8 * ((byte \div 16) % 2)
                     + 4 * ((byte \div 32) % 2) + 2 * ((byte \div 64) % 2)
                     + (byte \div 128), 0)

write_u8(e, byte) == write_u8_from(e, byte, 0)

RECURSIVE embed_payload_from(_, _, _)
embed_payload_from(e, data, j) ==
    IF j > Len(data) \/ e.panicked THEN e
    ELSE embed_payload_from(write_u8(e, data[j]), data, j + 1)

\* Fault variant: a terminating zero byte is written after the payload
embed_payload_terminated(e, data) == embed_payload_from(e, Append(data, 0), 1)

embed_payload(e, data) == embed_payload_from(e, data, 1)

\* read_u8 from bit position bit_pos on, accumulating into byte
RECURSIVE read_u8_from(_, _, _)
read_u8_from(e, byte, bit_pos) ==
    IF bit_pos >= 8 \/ e.panicked THEN [e |-> e, byte |-> byte]
    ELSE IF e.index >= Len(e.indices) THEN [e |-> [e EXCEPT !.panicked = TRUE], byte |-> byte]
    ELSE LET image_index == e.indices[e.index + 1]
             bit == extract_bit(e.target_bit_index, e.bytes[image_index + 1])
         IN  read_u8_from([e EXCEPT !.index = e.index + 1],
                          BitOr(byte, ShlU8(BitAnd(bit, 1), bit_pos)), bit_pos + 1)

read_u8(e) == read_u8_from(e, 0, 0)

RECURSIVE extract_payload_from(_, _, _)
extract_payload_from(e, size, out) ==
    IF Len(out) >= size \/ e.panicked THEN [e |-> e, payload |-> out]
    ELSE LET r == read_u8(e)
         IN  IF r.e.panicked THEN [e |-> r.e, payload |-> out]
             ELSE extract_payload_from(r.e, size, Append(out, r.byte))

\* Fault variant: the read loop stops one byte early
extract_payload_one_short(e, size) == extract_payload_from(e, size - 1, <<>>)

extract_payload(e, size) == extract_payload_from(e, size, <<>>)

(***************************************************************************)
(* Orchestrator (mod.rs): LSBEmbedder::embed and LSBEmbedder::extract as   *)
(* functions of their arguments.  A result has tag "ok", "err" (an Err    *)
(* value was returned) or "panic" (the call unwound).                      *)
(***************************************************************************)
NoEmbedResult ==
    [tag |-> "none", err |-> NoError, bytes_used |-> 0, header_size |-> 0, seed_embedded |-> FALSE]

NoExtractResult ==
    [tag |-> "none", err |-> NoError, payload |-> <<>>, header_size |-> 0,
     seed_was_embedded |-> FALSE]

Panic(where) == [variant |-> "Panic", cause |-> where]

LSBEmbedder_embed(image, data, config, csprng) ==
    LET pattern == from_config(config, csprng)
        hsize == required_size(pattern)
        seed_embedded == pattern.kind = "Random" /\ pattern.embed_seed
    IN  IF Len(image) < hsize
        THEN \* split_at_mut(header_size) with mid > len
             [image |-> image,
              res |-> [NoEmbedResult EXCEPT !.tag = "panic", !.err = Panic("split_at_mut")]]
        ELSE
        LET header_data == SubSeq(image, 1, hsize)
            body_data == SubSeq(image, hsize + 1, Len(image))
            h == HeaderEmbedder_embed(header_data, pattern, Len(data))
        IN  IF h.err # "Ok"
            THEN [image |-> image,
                  res |-> [NoEmbedResult EXCEPT !.tag = "err", !.err = From_HeaderError(h.err)]]
            ELSE
            LET b == embed_payload(BodyEmbedder_new(body_data, pattern, config.bit_index), data)
            IN  IF b.panicked
                THEN [image |-> h.bytes \o b.bytes,
                      res |-> [NoEmbedResult EXCEPT !.tag = "panic", !.err = Panic("write_u8")]]
                ELSE [image |-> h.bytes \o b.bytes,
                      res |-> [tag |-> "ok", err |-> NoError,
                               bytes_used |-> h.pos + Len(data) * 8,
                               header_size |-> hsize,
                               seed_embedded |-> seed_embedded]]

LSBEmbedder_extract(image, config) ==
    LET f == FixedHeader_read_from_bytes(image)
    IN  IF f.err # "Ok"
        THEN [NoExtractResult EXCEPT !.tag = "err", !.err = From_HeaderError(f.err)]
        ELSE
        LET hsize == calculate_total_header_size(f.fixed)
        IN  IF Len(image) < hsize
            THEN \* &image_data[..header_size] with end > len
                 [NoExtractResult EXCEPT !.tag = "panic", !.err = Panic("slice_index")]
            ELSE
            LET c == CompleteHeader_read_from_bytes(SubSeq(image, 1, hsize))
            IN  IF c.err # "Ok"
                THEN [NoExtractResult EXCEPT !.tag = "err", !.err = From_HeaderError(c.err)]
                ELSE
                LET seed_was_embedded == contains(c.fixed.flags, SEED_EMBEDDED)
                    rp == from_header_and_config(c, config)
                IN  IF rp.err # NoError
                    THEN [NoExtractResult EXCEPT !.tag = "err", !.err = rp.err]
                    ELSE
                    LET body_data == SubSeq(image, hsize + 1, Len(image))
                        e == BodyEmbedder_new(body_data, rp.pattern, config.bit_index)
                        r == extract_payload(e, from_be_bytes(c.fixed.payload_size))
                    IN  IF r.e.panicked
                        THEN [NoExtractResult EXCEPT !.tag = "panic", !.err = Panic("read_u8")]
                        ELSE [tag |-> "ok", err |-> NoError, payload |-> r.payload,
                              header_size |-> hsize, seed_was_embedded |-> seed_was_embedded]

(***************************************************************************)
(* Payload obfuscation (obfuscation.rs).  An Obfuscation is                *)
(* [kind |-> "Xor", key |-> bytes]; Option<Obfuscation> is a sequence of   *)
(* length 0 or 1.                                                          *)
(***************************************************************************)
Xor(key) == [kind |-> "Xor", key |-> key]

\* payload_data.iter().zip(key.iter().cycle()).map(|(b, k)| b ^ k), from the
\* i-th pair on
RECURSIVE xor_zip_from(_, _, _)
xor_zip_from(payload_data, key, i) ==
    IF i > Len(payload_data) THEN <<>>
    ELSE <<BitXor(payload_data[i], key[((i - 1) % Len(key)) + 1])>>
         \o xor_zip_from(payload_data, key, i + 1)

\* Fault variant: the key is zipped without cycle(), the output ends with it
RECURSIVE xor_zip_once_from(_, _, _)
xor_zip_once_from(payload_data, key, i) ==
    IF i > Len(payload_data) \/ i > Len(key) THEN <<>>
    ELSE <<BitXor(payload_data[i], key[i])>> \o xor_zip_once_from(payload_data, key, i + 1)

xor_payload_no_cycle(payload_data, key) ==
    IF key = <<>> THEN payload_data ELSE xor_zip_once_from(payload_data, key, 1)

xor_payload(payload_data, key) ==
    IF key = <<>> THEN payload_data ELSE xor_zip_from(payload_data, key, 1)

\* Fault variant: the data is embedded as it came
obfuscate_payload_passthrough(payload_data, obfuscation) == payload_data

obfuscate_payload(payload_data, obfuscation) == xor_payload(payload_data, obfuscation.key)

\* Fault variant: the data is handed back as it came
deobfuscate_payload_passthrough(payload_data, obfuscation) == payload_data

deobfuscate_payload(payload_data, obfuscation) == xor_payload(payload_data, obfuscation.key)

(***************************************************************************)
(* Inputs of the callers.                                                  *)
(***************************************************************************)
BitIndexAll == 0..7

\* The bit planes the callers of this model use: lowest, middle, highest
BitIndices == {0, 3, 7}

PayloadBytes == {105, 150}

RECURSIVE SeqsUpTo(_, _)
SeqsUpTo(S, n) ==
    IF n = 0 THEN {<<>>}
    ELSE LET shorter == SeqsUpTo(S, n - 1)
         IN  shorter \cup {Append(q, x) : q \in {t \in shorter : Len(t) = n - 1}, x \in S}

Payloads == SeqsUpTo(PayloadBytes, MaxPayloadLen)

Patterns ==
    {LSBConfig_linear, LSBConfig_random}
    \cup {with_password(LSBConfig_random, p) : p \in Passwords}
    \cup {with_seed(LSBConfig_random, s) : s \in ManualSeeds}

Configs == {with_bit_index(c, i) : c \in Patterns, i \in BitIndices}

Fill(kind, n) ==
    [i \in 1..n |-> CASE kind = "zero" -> 0
                      [] kind = "ones" -> 255
                      [] OTHER -> (i * 37 + 11) % 256]

FillKinds == {"zero", "mixed"}

\* Images the caller decoded and is about to embed into
FreshBuffers == {Fill(k, n) : k \in FillKinds, n \in BufLens}

\* Buffers that arrive carrying a well-formed fixed header (any flags, any
\* declared payload size, a correct CRC), as another writer of the wire
\* format could have produced them
ReceivedHeader(flags, size, seed) ==
    LET fixed0 == [version |-> VERSION, flags |-> flags,
                   payload_size |-> to_be_bytes(size), crc32 |-> <<0, 0, 0, 0>>]
    IN  [fixed |-> [fixed0 EXCEPT !.crc32 = calculate_crc(fixed0)],
         seed |-> IF contains(flags, SEED_EMBEDDED) THEN << seed >> ELSE <<>>]

ReceivedBuffers ==
    {LET hb == header_bytes(ReceivedHeader(flags, size, seed))
         body == Fill("mixed", n)
     IN  IF Len(hb) >= n THEN SubSeq(hb, 1, n) ELSE hb \o SubSeq(body, Len(hb) + 1, n) :
        flags \in 0..3, size \in 0..MaxPayloadLen, seed \in {[i \in 1..SEED_SIZE |-> 255 - i]},
        n \in {m \in BufLens : m >= FIXED_HEADER_SIZE}}

NoConfig == [LSBConfig_linear EXCEPT !.pattern = "None"]

(***************************************************************************)
(* State machine: one caller, one sample buffer.                           *)
(*   pc = "fresh"     a decoded image, nothing embedded yet                *)
(*   pc = "received"  a buffer carrying a header written elsewhere         *)
(*   pc = "embedded"  embed was called on the buffer                       *)
(*   pc = "tampered"  one bit of the stored header was flipped afterwards  *)
(*   pc = "extracted" extract was called on the buffer                     *)
(***************************************************************************)
NoFlip == << >>

\* The obfuscation options of the embedding and of the extracting call; an
\* Option<Obfuscation> is <<>> (None) or <<Xor(key)>> (Some(Xor { key }))
NoObf == [embed |-> <<>>, extract |-> <<>>]

\* The outcome of a second, independent embed call on the same arguments
NoSecond == [image |-> <<>>, res |-> NoEmbedResult]

\* The last call of one of the pure functions
NoCall == [op |-> "none"]

Init ==
    /\ \/ image_data \in FreshBuffers /\ pc = "fresh"
       \/ image_data \in ReceivedBuffers /\ pc = "received"
    /\ payload = <<>>
    /\ embedCfg = NoConfig
    /\ embedRes = NoEmbedResult
    /\ extractCfg = NoConfig
    /\ extractRes = NoExtractResult
    /\ preImage = <<>>
    /\ flip = NoFlip
    /\ obf = NoObf
    /\ second = NoSecond
    /\ call = NoCall

Embed(data, config, csprng) ==
    /\ pc = "fresh"
    /\ LET r == LSBEmbedder_embed(image_data, data, config, csprng)
       IN  /\ image_data' = r.image
           /\ embedRes' = r.res
    /\ preImage' = image_data
    /\ payload' = data
    /\ embedCfg' = config
    /\ pc' = "embedded"
    /\ UNCHANGED <<extractCfg, extractRes, flip, obf, second, call>>

Extract(config) ==
    /\ pc \in {"fresh", "received", "embedded", "tampered"}
    /\ extractRes' = LSBEmbedder_extract(image_data, config)
    /\ extractCfg' = config
    /\ pc' = "extracted"
    /\ UNCHANGED <<image_data, payload, embedCfg, embedRes, preImage, flip, obf, second, call>>

\* Bit b of sample byte i (0-based) is flipped between embed and extract
FlipBit(i, b) ==
    /\ pc = "embedded"
    /\ embedRes.tag = "ok"
    /\ i < Len(image_data)
    /\ image_data' = [image_data EXCEPT ![i + 1] = BitXor(@, Pow2(b))]
    /\ flip' = <<i, b>>
    /\ pc' = "tampered"
    /\ UNCHANGED <<payload, embedCfg, embedRes, extractCfg, extractRes, preImage, obf, second, call>>

\* The configs the caller extracts with: after an embed, any pattern and seed
\* source on the bit plane that was embedded into; on other buffers, any.
ExtractConfigs ==
    IF embedCfg = NoConfig THEN Configs
    ELSE {c \in Configs : c.bit_index = embedCfg.bit_index}

\* The CSPRNG is only consulted for Random + Auto
CsprngFor(config) ==
    IF config.pattern = "Random" /\ config.seed_source = "Auto" THEN CsprngSeeds ELSE {ZeroSeed}

Next ==
    \/ \E data \in Payloads, config \in Configs :
           \E csprng \in CsprngFor(config) : Embed(data, config, csprng)
    \/ \E config \in ExtractConfigs : Extract(config)

Spec == Init /\ [][Next]_vars

(***************************************************************************)
(* Tampering: a buffer is embedded into, one bit of the stored fixed       *)
(* header is flipped, and the holder of the embedding config extracts.     *)
(***************************************************************************)
TamperBuffers == {Fill(k, MaxBufLen) : k \in FillKinds}

TamperConfigs == {c \in Configs : c.bit_index = 0}

InitTamper ==
    /\ image_data \in TamperBuffers
    /\ pc = "fresh"
    /\ payload = <<>>
    /\ embedCfg = NoConfig
    /\ embedRes = NoEmbedResult
    /\ extractCfg = NoConfig
    /\ extractRes = NoExtractResult
    /\ preImage = <<>>
    /\ flip = NoFlip
    /\ obf = NoObf
    /\ second = NoSecond
    /\ call = NoCall

NextTamper ==
    \/ \E data \in Payloads, config \in TamperConfigs :
           \E csprng \in CsprngFor(config) : Embed(data, config, csprng)
    \/ \E i \in 0..(FIXED_HEADER_SIZE - 1), b \in 0..7 : FlipBit(i, b)
    \/ pc = "tampered" /\ Extract(embedCfg)

SpecTamper == InitTamper /\ [][NextTamper]_vars

(***************************************************************************)
(* Properties.  Vocabulary shared by the formulas below.                   *)
(***************************************************************************)
\* HEADER_BYTES of an embed with this config
HeaderBytes(config) == required_size(from_config(config, ZeroSeed))

IsAuto(config) == config.pattern = "Random" /\ config.seed_source = "Auto"

\* The fixed header read_from_bytes finds in the buffer as it is now
StoredHeader == FixedHeader_read_from_bytes(image_data)

ValidStoredHeader == StoredHeader.err = "Ok"

StoredFlags == StoredHeader.fixed.flags

StoredHeaderBytes == calculate_total_header_size(StoredHeader.fixed)

StoredPayloadSize == from_be_bytes(StoredHeader.fixed.payload_size)

\* An embed ran on this buffer and nothing touched the buffer since
EmbeddedUntouched == embedCfg # NoConfig /\ flip = NoFlip

\* C1: embed followed by extract on the same buffer with the same config
\* succeeds and returns exactly the embedded payload, for every buffer content,
\* pattern, seed source and bit index, whenever
\* 8 * len(payload) + HEADER_BYTES <= len(samples).
C1_RoundTrip ==
    (/\ pc = "extracted"
     /\ EmbeddedUntouched
     /\ extractCfg = embedCfg
     /\ 8 * Len(payload) + HeaderBytes(embedCfg) <= Len(preImage))
    => /\ embedRes.tag = "ok"
       /\ extractRes.tag = "ok"
       /\ extractRes.payload = payload

C1_Witness ==
    /\ pc = "extracted"
    /\ EmbeddedUntouched
    /\ extractCfg = embedCfg
    /\ embedCfg.pattern = "Random"
    /\ embedCfg.seed_source = "Password"
    /\ embedCfg.bit_index = 7
    /\ Len(payload) = 2
    /\ 8 * Len(payload) + HeaderBytes(embedCfg) = Len(preImage)
    /\ preImage[1] # 0
    /\ extractRes.tag = "ok"
    /\ extractRes.payload = payload

\* C2: embed returns the error PayloadTooLarge, without panicking and without
\* touching the buffer, whenever len(samples) < HEADER_BYTES + 8 * len(payload)
\* (buffers shorter than HEADER_BYTES included).
C2_EmbedCapacity ==
    (/\ embedCfg # NoConfig
     /\ Len(preImage) < HeaderBytes(embedCfg) + 8 * Len(payload))
    => /\ embedRes.tag = "err"
       /\ embedRes.err.variant = "PayloadTooLarge"

\* The boundary case of C2 as the code runs it: 22 samples, Linear, 2 bytes.
C2_PanicsAtBoundary ==
    /\ pc = "embedded"
    /\ Len(preImage) = FIXED_HEADER_SIZE + 8
    /\ embedCfg.pattern = "Linear"
    /\ Len(payload) = 2
    /\ embedRes.tag = "panic"
    /\ embedRes.err = Panic("write_u8")
    /\ image_data # preImage

\* C3: when a header with valid magic, version and CRC declares
\* payload_size > (len(samples) - HEADER_BYTES) / 8, extract returns the error
\* PayloadTooLarge and does not panic.  (Stated for the configs from which the
\* header's pattern can be reconstructed, so that no other error is due.)
C3_ExtractCapacity ==
    (/\ pc = "extracted"
     /\ ValidStoredHeader
     /\ Len(image_data) >= StoredHeaderBytes
     /\ StoredPayloadSize > (Len(image_data) - StoredHeaderBytes) \div 8
     /\ from_header_and_config(
            CompleteHeader_read_from_bytes(SubSeq(image_data, 1, StoredHeaderBytes)),
            extractCfg).err = NoError)
    => /\ extractRes.tag = "err"
       /\ extractRes.err.variant = "PayloadTooLarge"

\* C3 as the code runs it: a Linear header declaring 2 bytes over 8 body samples.
C3_PanicsOnOversizedHeader ==
    /\ pc = "extracted"
    /\ ValidStoredHeader
    /\ StoredFlags = 0
    /\ StoredPayloadSize = 2
    /\ Len(image_data) = FIXED_HEADER_SIZE + 8
    /\ extractCfg.pattern = "Linear"
    /\ extractRes.tag = "panic"
    /\ extractRes.err = Panic("read_u8")

\* Byte offsets (0-based) of the header fields in the buffer
VersionByte == MAGIC_SIZE

CrcCoveredBytes == MAGIC_SIZE..(MAGIC_SIZE + VERSION_SIZE + FLAGS_SIZE + PAYLOAD_SIZE_SIZE - 1)

\* C4 as stated: after a successful embed, flipping any single bit of the six
\* CRC-covered header bytes (version, flags, payload_size) makes extract fail
\* with CrcMismatch.
C4_CrcMismatchOnAnyFlip ==
    (/\ pc = "extracted"
     /\ flip # NoFlip
     /\ flip[1] \in CrcCoveredBytes)
    => /\ extractRes.tag = "err"
       /\ extractRes.err.cause = "CrcMismatch"

\* C4 as the code has it: after a successful embed, flipping any single bit of
\* the six CRC-covered header bytes makes extract fail with InvalidFormat and
\* return no payload; the HeaderError behind it is UnsupportedVersion for the 8
\* bits of the version byte (checked while parsing, before the CRC) and
\* CrcMismatch for the 40 bits of the flags and payload_size bytes.
C4_TamperDetected ==
    (/\ pc = "extracted"
     /\ flip # NoFlip
     /\ flip[1] \in CrcCoveredBytes)
    => /\ extractRes.tag = "err"
       /\ extractRes.err.variant = "InvalidFormat"
       /\ extractRes.payload = <<>>
       /\ extractRes.err.cause =
              IF flip[1] = VersionByte THEN "UnsupportedVersion" ELSE "CrcMismatch"

C4_Witness ==
    /\ pc = "extracted"
    /\ flip = <<MAGIC_SIZE + VERSION_SIZE + FLAGS_SIZE + PAYLOAD_SIZE_SIZE - 1, 0>>
    /\ embedRes.tag = "ok"
    /\ Len(payload) = 2
    /\ embedCfg.pattern = "Random"
    /\ extractRes.tag = "err"
    /\ extractRes.err.cause = "CrcMismatch"

\* C5: extract on a buffer of at least 14 bytes whose first four bytes are not
\* "PNGR" fails with InvalidMagic; with the magic in place and a version byte
\* other than 1 it fails with UnsupportedVersion; no payload is returned in
\* either case.  (Both kinds reach the caller as PngerError::InvalidFormat.)
C5_RejectsByKind ==
    (/\ pc = "extracted"
     /\ Len(image_data) >= FIXED_HEADER_SIZE
     /\ (SubSeq(image_data, 1, MAGIC_SIZE) # MAGIC \/ image_data[MAGIC_SIZE + 1] # VERSION))
    => /\ extractRes.tag = "err"
       /\ extractRes.err.variant = "InvalidFormat"
       /\ extractRes.payload = <<>>
       /\ extractRes.err.cause =
              IF SubSeq(image_data, 1, MAGIC_SIZE) # MAGIC
              THEN "InvalidMagic" ELSE "UnsupportedVersion"

C5_Witness ==
    /\ pc = "extracted"
    /\ Len(image_data) >= FIXED_HEADER_SIZE
    /\ SubSeq(image_data, 1, MAGIC_SIZE) = MAGIC
    /\ image_data[MAGIC_SIZE + 1] = 3
    /\ extractRes.tag = "err"
    /\ extractRes.err.cause = "UnsupportedVersion"

\* The buffer ends before the header it starts is complete
TruncatedHeader ==
    \/ Len(image_data) < FIXED_HEADER_SIZE
    \/ /\ ValidStoredHeader
       /\ contains(StoredFlags, SEED_EMBEDDED)
       /\ Len(image_data) < FIXED_HEADER_SIZE + SEED_SIZE

\* C6: extract reports InsufficientData as an error value, never a panic,
\* whenever the buffer ends before the header is complete: buffers shorter
\* than the 14 fixed bytes, and buffers of 14..45 bytes whose valid fixed
\* header has SEED_EMBEDDED set.
C6_TruncatedHeader ==
    (pc = "extracted" /\ TruncatedHeader)
    => /\ extractRes.tag = "err"
       /\ extractRes.err.cause = "InsufficientData"

\* C6 as the code runs it: 30 bytes, valid fixed header, both flags set.
C6_PanicsOnMissingSeed ==
    /\ pc = "extracted"
    /\ ValidStoredHeader
    /\ StoredFlags = RANDOM_PATTERN + SEED_EMBEDDED
    /\ Len(image_data) = FIXED_HEADER_SIZE + 16
    /\ extractRes.tag = "panic"
    /\ extractRes.err = Panic("slice_index")

\* C7: extract on a header with correct magic, version and CRC whose flags have
\* SEED_EMBEDDED set and RANDOM_PATTERN clear fails with InvalidFormat and
\* never returns a payload.  (Stated for buffers that hold the whole 46-byte
\* header, so that nothing is missing.)
C7_FlagConsistency ==
    (/\ pc = "extracted"
     /\ ValidStoredHeader
     /\ contains(StoredFlags, SEED_EMBEDDED)
     /\ ~contains(StoredFlags, RANDOM_PATTERN)
     /\ Len(image_data) >= StoredHeaderBytes)
    => /\ extractRes.tag = "err"
       /\ extractRes.err.variant = "InvalidFormat"

\* C7 as the code runs it: the header is read as Linear with a 46-byte header
\* and a payload comes back.
C7_PayloadReturned ==
    /\ pc = "extracted"
    /\ ValidStoredHeader
    /\ StoredFlags = SEED_EMBEDDED
    /\ extractRes.tag = "ok"
    /\ Len(extractRes.payload) = 1
    /\ extractRes.header_size = FIXED_HEADER_SIZE + SEED_SIZE
    /\ extractRes.seed_was_embedded

\* The samples from offset `from` (0-based) on differ from the pre-embed
\* samples in nothing but the bit plane of the embed
OnlyBitPlaneChangedFrom(from) ==
    \A i \in (from + 1)..Len(image_data) :
        embed_bit(embedCfg.bit_index, image_data[i], 0)
            = embed_bit(embedCfg.bit_index, preImage[i], 0)

\* C8: a successful embed with Random+Auto returns seed_embedded = true and
\* header_size = 46 and stores 32 seed bytes right after the fixed header;
\* with Linear, Random+Password or Random+Manual it returns
\* seed_embedded = false and header_size = 14 and stores no seed bytes (past
\* byte 14 only the embed's bit plane changes); a following successful extract
\* reports the same header_size and seed_was_embedded.
C8_SeedEmbeddingFollowsSource ==
    (EmbeddedUntouched /\ embedRes.tag = "ok")
    => /\ embedRes.seed_embedded = IsAuto(embedCfg)
       /\ embedRes.header_size =
              IF IsAuto(embedCfg) THEN FIXED_HEADER_SIZE + SEED_SIZE ELSE FIXED_HEADER_SIZE
       /\ contains(image_data[MAGIC_SIZE + VERSION_SIZE + 1], SEED_EMBEDDED) = IsAuto(embedCfg)
       /\ IsAuto(embedCfg) =>
              /\ SubSeq(image_data, FIXED_HEADER_SIZE + 1, FIXED_HEADER_SIZE + SEED_SIZE)
                     \in CsprngSeeds
              /\ OnlyBitPlaneChangedFrom(FIXED_HEADER_SIZE + SEED_SIZE)
       /\ ~IsAuto(embedCfg) => OnlyBitPlaneChangedFrom(FIXED_HEADER_SIZE)
       /\ (pc = "extracted" /\ extractRes.tag = "ok") =>
              /\ extractRes.header_size = embedRes.header_size
              /\ extractRes.seed_was_embedded = embedRes.seed_embedded

C8_Witness ==
    /\ pc = "extracted"
    /\ EmbeddedUntouched
    /\ embedRes.tag = "ok"
    /\ IsAuto(embedCfg)
    /\ extractCfg = embedCfg
    /\ Len(payload) = 1
    /\ preImage[FIXED_HEADER_SIZE + 1] # image_data[FIXED_HEADER_SIZE + 1]
    /\ embedRes.header_size = FIXED_HEADER_SIZE + SEED_SIZE
    /\ extractRes.tag = "ok"
    /\ extractRes.seed_was_embedded

\* C9: on a buffer embedded with Random+Auto, extract with a Random config on
\* the same bit plane returns the embedded payload whatever the config's
\* seed_source (Auto, any Password, any Manual seed): the result is the one
\* the embedding config itself gets, so the caller's seed material is not used.
C9_AutoSeedRecovery ==
    (/\ pc = "extracted"
     /\ EmbeddedUntouched
     /\ embedRes.tag = "ok"
     /\ IsAuto(embedCfg)
     /\ extractCfg.pattern = "Random"
     /\ extractCfg.bit_index = embedCfg.bit_index)
    => /\ extractRes.tag = "ok"
       /\ extractRes.payload = payload
       /\ extractRes.seed_was_embedded
       /\ extractRes = LSBEmbedder_extract(image_data, embedCfg)

C9_Witness ==
    /\ pc = "extracted"
    /\ EmbeddedUntouched
    /\ embedRes.tag = "ok"
    /\ IsAuto(embedCfg)
    /\ extractCfg.pattern = "Random"
    /\ extractCfg.seed_source = "Manual"
    /\ Len(payload) = 2
    /\ extractRes.tag = "ok"
    /\ extractRes.payload = payload

\* C10: extract with a Random+Auto config on a buffer whose valid header has
\* RANDOM_PATTERN set and SEED_EMBEDDED clear fails with InvalidFormat and
\* returns no payload.
C10_AutoWithoutEmbeddedSeed ==
    (/\ pc = "extracted"
     /\ ValidStoredHeader
     /\ contains(StoredFlags, RANDOM_PATTERN)
     /\ ~contains(StoredFlags, SEED_EMBEDDED)
     /\ IsAuto(extractCfg))
    => /\ extractRes.tag = "err"
       /\ extractRes.err.variant = "InvalidFormat"
       /\ extractRes.payload = <<>>

C10_Witness ==
    /\ pc = "extracted"
    /\ EmbeddedUntouched
    /\ embedRes.tag = "ok"
    /\ embedCfg.pattern = "Random"
    /\ embedCfg.seed_source = "Password"
    /\ Len(payload) = 1
    /\ IsAuto(extractCfg)
    /\ extractRes.tag = "err"
    /\ extractRes.err = [variant |-> "InvalidFormat", cause |-> "AutoWithoutSeed"]

\* The declared payload fits into the samples after the stored header
StoredPayloadFits ==
    /\ Len(image_data) >= StoredHeaderBytes
    /\ StoredPayloadSize <= (Len(image_data) - StoredHeaderBytes) \div 8

\* C11: extract with a Linear config on a buffer whose valid header has
\* RANDOM_PATTERN set returns an error (InvalidFormat) instead of a payload,
\* with SEED_EMBEDDED clear and with SEED_EMBEDDED set alike.  (Stated for
\* buffers that hold the whole header and the declared payload.)
C11_LinearOnRandomHeader ==
    (/\ pc = "extracted"
     /\ ValidStoredHeader
     /\ contains(StoredFlags, RANDOM_PATTERN)
     /\ StoredPayloadFits
     /\ extractCfg.pattern = "Linear")
    => /\ extractRes.tag = "err"
       /\ extractRes.err.variant = "InvalidFormat"

\* C11 as the code runs it: a Random+Auto embed read back with a Linear config.
C11_PayloadReturnedToLinear ==
    /\ pc = "extracted"
    /\ EmbeddedUntouched
    /\ embedRes.tag = "ok"
    /\ IsAuto(embedCfg)
    /\ Len(payload) = 2
    /\ extractCfg.pattern = "Linear"
    /\ extractRes.tag = "ok"
    /\ extractRes.payload = payload
    /\ extractRes.seed_was_embedded

\* The seed of the runtime pattern of the embed: the stored one for
\* Random+Auto, else what from_config derives from the config
EmbedSeedOf(config) ==
    IF IsAuto(config)
    THEN SubSeq(image_data, FIXED_HEADER_SIZE + 1, FIXED_HEADER_SIZE + SEED_SIZE)
    ELSE ZeroSeed

\* The header bytes an embed of this payload with this config writes
HeaderBytesWritten ==
    header_bytes(build_header(from_config(embedCfg, EmbedSeedOf(embedCfg)), Len(payload)))

\* C12 as stated: a successful embed stores the header bit by bit in the
\* configured bit plane of the first HEADER_BYTES * 8 sample bytes, so in those
\* sample bytes only the bit at bit_index may change.
C12_HeaderInBitPlane ==
    (EmbeddedUntouched /\ embedRes.tag = "ok")
    => \A i \in 1..Len(image_data) :
           i <= 8 * HeaderBytes(embedCfg)
           => embed_bit(embedCfg.bit_index, image_data[i], 0)
                  = embed_bit(embedCfg.bit_index, preImage[i], 0)

\* C12 as the code has it: a successful embed overwrites the first
\* HEADER_BYTES sample bytes, all eight bits of each, with the header bytes
\* themselves, whatever the bit index; only from sample HEADER_BYTES on is the
\* change confined to the configured bit plane; and an extract that succeeds
\* has found the magic and the version as whole leading sample bytes.
C12_HeaderRawPlacement ==
    /\ (EmbeddedUntouched /\ embedRes.tag = "ok")
       => /\ SubSeq(image_data, 1, HeaderBytes(embedCfg)) = HeaderBytesWritten
          /\ OnlyBitPlaneChangedFrom(HeaderBytes(embedCfg))
    /\ (pc = "extracted" /\ extractRes.tag = "ok")
       => /\ SubSeq(image_data, 1, MAGIC_SIZE) = MAGIC
          /\ image_data[MAGIC_SIZE + 1] = VERSION

C12_Witness ==
    /\ pc = "extracted"
    /\ EmbeddedUntouched
    /\ embedRes.tag = "ok"
    /\ embedCfg.bit_index = 7
    /\ extractCfg = embedCfg
    /\ preImage[1] # 0
    /\ image_data[1] = MAGIC[1]
    /\ embed_bit(7, image_data[1], 0) # embed_bit(7, preImage[1], 0)
    /\ extractRes.tag = "ok"

(***************************************************************************)
(* The worked example of a 200-sample image: a zero-filled buffer of 200   *)
(* samples, the payload "hi" among the payloads, every config.             *)
(***************************************************************************)
ScenarioImage == Fill("zero", 200)

ScenarioPayload == <<104, 105>>

InitScenario ==
    /\ image_data = ScenarioImage
    /\ pc = "fresh"
    /\ payload = <<>>
    /\ embedCfg = NoConfig
    /\ embedRes = NoEmbedResult
    /\ extractCfg = NoConfig
    /\ extractRes = NoExtractResult
    /\ preImage = <<>>
    /\ flip = NoFlip
    /\ obf = NoObf
    /\ second = NoSecond
    /\ call = NoCall

NextScenario ==
    \/ \E data \in Payloads \cup {ScenarioPayload}, config \in Configs :
           \E csprng \in CsprngFor(config) : Embed(data, config, csprng)
    \/ \E config \in ExtractConfigs : Extract(config)

SpecScenario == InitScenario /\ [][NextScenario]_vars

\* embed(200 zero samples, "hi", Linear, bit index 0) has run
ScenarioEmbedded ==
    /\ embedCfg = LSBConfig_linear
    /\ preImage = ScenarioImage
    /\ payload = ScenarioPayload

\* C13 as stated: for a zero-filled buffer of length 200, payload "hi", Linear
\* pattern and bit index 0, embed succeeds with
\* bytes_used = 14 * 8 + 2 * 8 = 128, header_size = 14, seed_embedded = false.
C13_BytesUsedIs128 ==
    ScenarioEmbedded
    => /\ embedRes.tag = "ok"
       /\ embedRes.bytes_used = 14 * 8 + 2 * 8
       /\ embedRes.header_size = 14
       /\ embedRes.seed_embedded = FALSE

\* C13 as the code has it: a successful embed returns
\* bytes_used = HEADER_BYTES + 8 * len(payload), the header counting one
\* sample byte per header byte (14, or 46 with an embedded seed); in the
\* example bytes_used = 14 + 2 * 8 = 30, header_size = 14,
\* seed_embedded = false.
C13_BytesUsedAccounting ==
    /\ (embedCfg # NoConfig /\ embedRes.tag = "ok")
       => /\ embedRes.bytes_used = HeaderBytes(embedCfg) + 8 * Len(payload)
          /\ embedRes.header_size = HeaderBytes(embedCfg)
          /\ embedRes.bytes_used <= Len(preImage)
    /\ ScenarioEmbedded
       => /\ embedRes.tag = "ok"
          /\ embedRes.bytes_used = 14 + 2 * 8
          /\ embedRes.header_size = 14
          /\ embedRes.seed_embedded = FALSE

C13_Witness ==
    /\ pc = "extracted"
    /\ ScenarioEmbedded
    /\ embedRes.tag = "ok"
    /\ embedRes.bytes_used = 30
    /\ extractCfg = embedCfg
    /\ extractRes.payload = ScenarioPayload

\* C14: after a successful embed the buffer starts with the header in this
\* layout: bytes 0..3 are "PNGR"; byte 4 is 1; byte 5 has bit 0 set exactly
\* for the Random pattern, bit 1 set exactly when the seed is embedded (Random
\* with Auto), bits 2..7 zero, and bit 1 only together with bit 0; bytes 6..9
\* are the payload length, big-endian; bytes 10..13 are the big-endian CRC-32
\* of exactly bytes 4..9; the 32 seed bytes follow at 14..45 exactly when bit 1
\* is set, and nothing else of the header follows.
C14_WireFormat ==
    (EmbeddedUntouched /\ embedRes.tag = "ok")
    => LET flags == image_data[6]
           bit0  == BitAnd(flags, 1) = 1
           bit1  == BitAnd(flags, 2) = 2
       IN  /\ SubSeq(image_data, 1, 4) = <<80, 78, 71, 82>>
           /\ image_data[5] = 1
           /\ bit0 <=> (embedCfg.pattern = "Random")
           /\ bit1 <=> IsAuto(embedCfg)
           /\ flags < 4
           /\ bit1 => bit0
           /\ SubSeq(image_data, 7, 10) = <<0, 0, 0, Len(payload)>>
           /\ SubSeq(image_data, 11, 14) = Crc32(SubSeq(image_data, 5, 10))
           /\ bit1 => /\ SubSeq(image_data, 15, 46) \in CsprngSeeds
                      /\ embedRes.header_size = 46
                      /\ OnlyBitPlaneChangedFrom(46)
           /\ ~bit1 => /\ embedRes.header_size = 14
                       /\ OnlyBitPlaneChangedFrom(14)
           /\ embedRes.seed_embedded = bit1

C14_Witness ==
    /\ EmbeddedUntouched
    /\ embedRes.tag = "ok"
    /\ image_data[6] = 3
    /\ Len(payload) = MaxPayloadLen
    /\ SubSeq(image_data, 15, 46) \in CsprngSeeds

(***************************************************************************)
(* The pure functions called on their own: the bit codec on every carrier  *)
(* byte and bit position, the XOR layer on short payloads and keys.  call  *)
(* holds the last call, its arguments and its return value.                *)
(***************************************************************************)
\* Values handed in as the bit: the two bits, and bytes that are not a bit
BitValues == {0, 1, 2, 3, 254, 255}

KeyBytes == {0, 60, 255}

Keys == SeqsUpTo(KeyBytes, MaxKeyLen)

InitPure ==
    /\ image_data = <<>>
    /\ pc = "fresh"
    /\ payload = <<>>
    /\ embedCfg = NoConfig
    /\ embedRes = NoEmbedResult
    /\ extractCfg = NoConfig
    /\ extractRes = NoExtractResult
    /\ preImage = <<>>
    /\ flip = NoFlip
    /\ obf = NoObf
    /\ second = NoSecond
    /\ call = NoCall

CallEmbedBit(target_bit_index, carrier, bit) ==
    /\ call.op = "none"
    /\ call' = [op |-> "embed_bit", pos |-> target_bit_index, carrier |-> carrier,
                bit |-> bit, out |-> embed_bit(target_bit_index, carrier, bit)]
    /\ UNCHANGED <<image_data, pc, payload, embedCfg, embedRes, extractCfg, extractRes,
                   preImage, flip, obf, second>>

\* extract_bit on the byte embed_bit returned, at the same position
CallExtractBit ==
    /\ call.op = "embed_bit"
    /\ call' = [op |-> "extract_bit", pos |-> call.pos, carrier |-> call.carrier,
                bit |-> call.bit, marked |-> call.out,
                out |-> extract_bit(call.pos, call.out)]
    /\ UNCHANGED <<image_data, pc, payload, embedCfg, embedRes, extractCfg, extractRes,
                   preImage, flip, obf, second>>

CallXorPayload(payload_data, key) ==
    /\ call.op = "none"
    /\ call' = [op |-> "xor_payload", data |-> payload_data, key |-> key,
                out |-> xor_payload(payload_data, key)]
    /\ UNCHANGED <<image_data, pc, payload, embedCfg, embedRes, extractCfg, extractRes,
                   preImage, flip, obf, second>>

CallObfuscate(payload_data, obfuscation) ==
    /\ call.op = "none"
    /\ call' = [op |-> "obfuscate_payload", data |-> payload_data, key |-> obfuscation.key,
                out |-> obfuscate_payload(payload_data, obfuscation)]
    /\ UNCHANGED <<image_data, pc, payload, embedCfg, embedRes, extractCfg, extractRes,
                   preImage, flip, obf, second>>

\* deobfuscate_payload on what obfuscate_payload returned, with the same key
CallDeobfuscate ==
    /\ call.op = "obfuscate_payload"
    /\ call' = [op |-> "deobfuscate_payload", data |-> call.data, key |-> call.key,
                obfuscated |-> call.out,
                out |-> deobfuscate_payload(call.out, Xor(call.key))]
    /\ UNCHANGED <<image_data, pc, payload, embedCfg, embedRes, extractCfg, extractRes,
                   preImage, flip, obf, second>>

NextPure ==
    \/ /\ call.op = "none"
       /\ \/ \E pos \in BitIndexAll, carrier \in 0..255, bit \in BitValues :
                 CallEmbedBit(pos, carrier, bit)
          \/ \E data \in Payloads, key \in Keys : CallXorPayload(data, key)
          \/ \E data \in Payloads, key \in Keys : CallObfuscate(data, Xor(key))
    \/ CallExtractBit
    \/ CallDeobfuscate

SpecPure == InitPure /\ [][NextPure]_vars

\* Bit i of the byte x
BitOf(x, i) == (x \div Pow2(i)) % 2

\* C15: for every position pos in 0..7, every carrier byte c and every bit
\* value b, extract_bit(pos, embed_bit(pos, c, b)) = b & 1, embed_bit leaves
\* the seven other bits of c as they were, and a bit value greater than 1
\* counts as its low bit.
C15_BitCodecRoundTrip ==
    /\ call.op = "embed_bit"
       => /\ call.out \in 0..255
          /\ BitOf(call.out, call.pos) = call.bit % 2
          /\ \A i \in BitIndexAll \ {call.pos} : BitOf(call.out, i) = BitOf(call.carrier, i)
          /\ call.out = embed_bit(call.pos, call.carrier, call.bit % 2)
    /\ call.op = "extract_bit" => call.out = call.bit % 2

C15_Witness ==
    /\ call.op = "extract_bit"
    /\ call.pos = 7
    /\ call.carrier = 127
    /\ call.bit = 255
    /\ call.marked = 255
    /\ call.out = 1

\* a ^ b on two bytes, bit by bit
XorByBit(a, b) ==
    LET x(j) == ((BitOf(a, j) + BitOf(b, j)) % 2) * Pow2(j)
    IN  x(0) + x(1) + x(2) + x(3) + x(4) + x(5) + x(6) + x(7)

\* C16: xor_payload(p, k) returns a sequence as long as p with
\* output[i] = p[i] XOR k[i mod len(k)] for a non-empty key (the key cycles
\* when it is shorter than the payload, only its prefix is used when it is
\* longer), and returns p unchanged for an empty key.
C16_XorDefinition ==
    call.op = "xor_payload"
    => /\ Len(call.out) = Len(call.data)
       /\ call.key = <<>> => call.out = call.data
       /\ call.key # <<>>
          => \A i \in 1..Len(call.data) :
                 call.out[i] = XorByBit(call.data[i], call.key[((i - 1) % Len(call.key)) + 1])

\* a one-byte key cycles over a two-byte payload
C16_Witness ==
    /\ call.op = "xor_payload"
    /\ call.data = <<105, 150>>
    /\ call.key = <<60>>
    /\ call.out = <<85, 170>>

\* C17: for every payload p and every key k, the empty key included,
\* deobfuscate_payload(obfuscate_payload(p, Xor{k}), Xor{k}) = p.
C17_XorSymmetry ==
    call.op = "deobfuscate_payload" => call.out = call.data

C17_Witness ==
    /\ call.op = "deobfuscate_payload"
    /\ call.data = <<105, 150>>
    /\ call.key = <<60, 255>>
    /\ call.obfuscated = <<85, 105>>
    /\ call.out = <<105, 150>>

(***************************************************************************)
(* The options API (lib.rs): embed and extract with EmbeddingOptions       *)
(* [strategy, obfuscation] on a decoded image large enough for every       *)
(* payload of the model, and a second, independent embed of the same       *)
(* inputs.  payload is the caller's payload, before obfuscation.           *)
(*   pc = "embedded_twice"  embed ran a second time on the same inputs     *)
(***************************************************************************)
ObfKeys == {<<>>, <<60>>, <<1, 255>>}

Obfuscations == {<<>>} \cup {<<Xor(key)>> : key \in ObfKeys}

EmbeddingOptions == [strategy : Configs, obfuscation : Obfuscations]

LargeBuffers == {Fill(k, MaxBufLen) : k \in FillKinds}

\* What the embedder is handed: the payload after the optional obfuscation
ObfuscatedFor(data, obfuscation) ==
    IF obfuscation # <<>> THEN obfuscate_payload(data, obfuscation[1]) ELSE data

InitOptions ==
    /\ image_data \in LargeBuffers
    /\ pc = "fresh"
    /\ payload = <<>>
    /\ embedCfg = NoConfig
    /\ embedRes = NoEmbedResult
    /\ extractCfg = NoConfig
    /\ extractRes = NoExtractResult
    /\ preImage = <<>>
    /\ flip = NoFlip
    /\ obf = NoObf
    /\ second = NoSecond
    /\ call = NoCall

\* embed_payload_from_bytes_with_options on the decoded samples; an Err leaves
\* the caller with the image it had
EmbedWithOptions(data, options, csprng) ==
    /\ pc = "fresh"
    /\ LET r == LSBEmbedder_embed(image_data, ObfuscatedFor(data, options.obfuscation),
                                  options.strategy, csprng)
       IN  /\ image_data' = IF r.res.tag = "ok" THEN r.image ELSE image_data
           /\ embedRes' = r.res
    /\ preImage' = image_data
    /\ payload' = data
    /\ embedCfg' = options.strategy
    /\ obf' = [obf EXCEPT !.embed = options.obfuscation]
    /\ pc' = "embedded"
    /\ UNCHANGED <<extractCfg, extractRes, flip, second, call>>

\* The same call once more, on the image, payload and options of the first
EmbedAgain(csprng) ==
    /\ pc = "embedded"
    /\ LET r == LSBEmbedder_embed(preImage, ObfuscatedFor(payload, obf.embed), embedCfg, csprng)
       IN  second' = [image |-> IF r.res.tag = "ok" THEN r.image ELSE preImage, res |-> r.res]
    /\ pc' = "embedded_twice"
    /\ UNCHANGED <<image_data, payload, embedCfg, embedRes, extractCfg, extractRes,
                   preImage, flip, obf, call>>

\* extract_payload_from_bytes_with_options on the decoded samples
ExtractWithOptions(options) ==
    /\ pc = "embedded"
    /\ LET r == LSBEmbedder_extract(image_data, options.strategy)
       IN  extractRes' =
               IF r.tag = "ok" /\ options.obfuscation # <<>>
               THEN [r EXCEPT !.payload = deobfuscate_payload(r.payload, options.obfuscation[1])]
               ELSE r
    /\ extractCfg' = options.strategy
    /\ obf' = [obf EXCEPT !.extract = options.obfuscation]
    /\ pc' = "extracted"
    /\ UNCHANGED <<image_data, payload, embedCfg, embedRes, preImage, flip, second, call>>

\* The receiver knows the bit plane; it passes the sender's obfuscation or none
ExtractOptions ==
    [strategy : {c \in Configs : c.bit_index = embedCfg.bit_index},
     obfuscation : {<<>>, obf.embed}]

NextOptions ==
    \/ /\ pc = "fresh"
       /\ \E data \in Payloads, options \in EmbeddingOptions, csprng \in CsprngSeeds :
              EmbedWithOptions(data, options, csprng)
    \/ /\ pc = "embedded"
       /\ \/ \E csprng \in CsprngSeeds : EmbedAgain(csprng)
          \/ \E options \in ExtractOptions : ExtractWithOptions(options)

SpecOptions == InitOptions /\ [][NextOptions]_vars

\* The XOR key of the embed, when it has one whose bytes are all non-zero
NonZeroKeyUsed ==
    /\ obf.embed # <<>>
    /\ obf.embed[1].key # <<>>
    /\ \A i \in 1..Len(obf.embed[1].key) : obf.embed[1].key[i] # 0

\* The buffer the same embed leaves without obfuscation (same image, payload,
\* pattern and seed)
PlainEmbedImage == LSBEmbedder_embed(preImage, payload, embedCfg, EmbedSeedOf(embedCfg)).image

\* C18: for the same image, the same non-empty payload and the same
\* pattern/seed, embedding with an XOR key of non-zero bytes and embedding
\* without obfuscation give buffers that differ in at least one body bit
\* position (and nowhere outside the body's bit plane), while the header,
\* payload_size included, is the same; embed and extract with the same XOR
\* config return the original payload.
C18_XorChangesBody ==
    /\ (pc = "embedded" /\ embedRes.tag = "ok" /\ NonZeroKeyUsed /\ payload # <<>>)
       => LET H == HeaderBytes(embedCfg)
              plain == PlainEmbedImage
          IN  /\ Len(plain) = Len(image_data)
              /\ SubSeq(plain, 1, H) = SubSeq(image_data, 1, H)
              /\ \E i \in (H + 1)..Len(image_data) :
                     extract_bit(embedCfg.bit_index, plain[i])
                         # extract_bit(embedCfg.bit_index, image_data[i])
              /\ \A i \in (H + 1)..Len(image_data) :
                     embed_bit(embedCfg.bit_index, plain[i], 0)
                         = embed_bit(embedCfg.bit_index, image_data[i], 0)
    /\ (pc = "extracted" /\ embedRes.tag = "ok" /\ obf.embed # <<>>
        /\ extractCfg = embedCfg /\ obf.extract = obf.embed)
       => /\ extractRes.tag = "ok"
          /\ extractRes.payload = payload

C18_Witness ==
    /\ pc = "extracted"
    /\ embedRes.tag = "ok"
    /\ NonZeroKeyUsed
    /\ Len(obf.embed[1].key) < Len(payload)
    /\ embedCfg.pattern = "Random"
    /\ extractCfg = embedCfg
    /\ obf.extract = obf.embed
    /\ extractRes.payload = payload
    /\ PlainEmbedImage # image_data

\* The seed bytes a buffer carries after its fixed header
SeedBytesOf(image) == SubSeq(image, FIXED_HEADER_SIZE + 1, FIXED_HEADER_SIZE + SEED_SIZE)

\* C19: for a fixed sample buffer, payload and config whose pattern is Linear,
\* Random+Manual or Random+Password, two independent embed calls leave
\* byte-identical buffers and return identical EmbedResults, whatever the
\* random generator yields in either call; only with Random+Auto can the two
\* buffers differ, and they do exactly when the two calls drew different seeds.
C19_Determinism ==
    pc = "embedded_twice"
    => /\ ~IsAuto(embedCfg) => (second.image = image_data /\ second.res = embedRes)
       /\ (IsAuto(embedCfg) /\ embedRes.tag = "ok")
          => /\ second.res = embedRes
             /\ (second.image = image_data) <=> (SeedBytesOf(second.image) = SeedBytesOf(image_data))

\* Two embeds with Random+Password of a two-byte payload, same buffer and result
C19_Witness ==
    /\ pc = "embedded_twice"
    /\ embedCfg.pattern = "Random"
    /\ embedCfg.seed_source = "Password"
    /\ Len(payload) = MaxPayloadLen
    /\ embedRes.tag = "ok"
    /\ image_data # preImage
    /\ second.image = image_data
    /\ second.res = embedRes

\* Two embeds with Random+Auto that drew different seeds
C19_AutoDiffers ==
    /\ pc = "embedded_twice"
    /\ IsAuto(embedCfg)
    /\ second.image # image_data

\* The seed a Random config with its own seed material (password or manual
\* seed) stands for
OwnSeed(config) == from_config(config, ZeroSeed).seed

HasOwnSeed(config) == config # NoConfig /\ config.pattern = "Random" /\ ~IsAuto(config)

\* Embed with Random+Password or Random+Manual succeeded, and extract ran on
\* the same buffer with a different password or seed
WrongKeyExtracted ==
    /\ pc = "extracted"
    /\ EmbeddedUntouched
    /\ embedRes.tag = "ok"
    /\ HasOwnSeed(embedCfg)
    /\ HasOwnSeed(extractCfg)
    /\ OwnSeed(extractCfg) # OwnSeed(embedCfg)

C21_EmptyPayload ==
    (EmbeddedUntouched /\ payload = <<>> /\ Len(preImage) >= HeaderBytes(embedCfg))
    => /\ embedRes.tag = "ok"
       /\ embedRes.bytes_used = HeaderBytes(embedCfg)
       /\ ValidStoredHeader
       /\ StoredPayloadSize = 0
       /\ Len(image_data) = Len(preImage)
       /\ \A i \in (HeaderBytes(embedCfg) + 1)..Len(image_data) : image_data[i] = preImage[i]
       /\ (pc = "extracted" /\ extractCfg = embedCfg)
          => /\ extractRes.tag = "ok"
             /\ extractRes.payload = <<>>

\* An empty payload went into a buffer that has a body region, and came back
C21_Witness ==
    /\ pc = "extracted"
    /\ EmbeddedUntouched
    /\ payload = <<>>
    /\ embedCfg.pattern = "Random"
    /\ Len(preImage) > HeaderBytes(embedCfg)
    /\ extractCfg = embedCfg
    /\ extractRes.tag = "ok"
    /\ extractRes.payload = <<>>

(***************************************************************************)
(* Two payloads in one image, each in its own bit plane: a first embed, a  *)
(* second embed with another bit index on the buffer the first one left,   *)
(* and an extract with either config.  call keeps the second embed's       *)
(* arguments, second its outcome.                                          *)
(*   pc = "layered"  the second embed ran on the embedded buffer           *)
(***************************************************************************)
\* The second call: same pattern and seed material, another bit index
LayerConfigs == {with_bit_index(embedCfg, i) : i \in BitIndices \ {embedCfg.bit_index}}

EmbedLayer(data, config, csprng) ==
    /\ pc = "embedded"
    /\ embedRes.tag = "ok"
    /\ LET r == LSBEmbedder_embed(image_data, data, config, csprng)
       IN  /\ image_data' = r.image
           /\ second' = [image |-> r.image, res |-> r.res]
    /\ call' = [op |-> "embed", data |-> data, config |-> config]
    /\ pc' = "layered"
    /\ UNCHANGED <<payload, embedCfg, embedRes, extractCfg, extractRes, preImage, flip, obf>>

ExtractLayer(config) ==
    /\ pc = "layered"
    /\ extractRes' = LSBEmbedder_extract(image_data, config)
    /\ extractCfg' = config
    /\ pc' = "extracted"
    /\ UNCHANGED <<image_data, payload, embedCfg, embedRes, preImage, flip, obf, second, call>>

NextLayers ==
    \/ /\ pc = "fresh"
       /\ \E data \in Payloads, config \in Configs :
              \E csprng \in CsprngFor(config) : Embed(data, config, csprng)
    \/ /\ pc = "embedded"
       /\ \E data \in Payloads, config \in LayerConfigs :
              \E csprng \in CsprngFor(config) : EmbedLayer(data, config, csprng)
    \/ /\ pc = "layered"
       /\ \E config \in {embedCfg, call.config} : ExtractLayer(config)

SpecLayers == InitOptions /\ [][NextLayers]_vars

\* Both embeds succeeded and extract ran on the buffer that carries both
BothLayersEmbedded ==
    /\ pc = "extracted"
    /\ call.op = "embed"
    /\ embedRes.tag = "ok"
    /\ second.res.tag = "ok"

\* C22 as stated: after embedding payload A with bit index i and then payload
\* B (of any length that fits) with a different bit index j into the same
\* image with the same pattern, extracting with bit index i returns A and
\* extracting with bit index j returns B.
C22_LayersIndependent ==
    BothLayersEmbedded
    => /\ extractCfg = embedCfg
          => (extractRes.tag = "ok" /\ extractRes.payload = payload)
       /\ extractCfg = call.config
          => (extractRes.tag = "ok" /\ extractRes.payload = call.data)

\* Linear, A of two bytes in bit plane 0, B of one byte in another plane:
\* extract with A's config returns one byte, the first of A
C22_FirstPayloadTruncated ==
    /\ BothLayersEmbedded
    /\ embedCfg = LSBConfig_linear
    /\ Len(payload) = 2
    /\ Len(call.data) = 1
    /\ extractCfg = embedCfg
    /\ extractRes.tag = "ok"
    /\ extractRes.payload = SubSeq(payload, 1, 1)
    /\ StoredPayloadSize = 1

(***************************************************************************)
(* Bit index type (bit_index.rs) and command line (cli/mod.rs, cli/lsb.rs).*)
(* A BitIndex is one of "Bit0" .. "Bit7"; a Result is [ok, v] with v the   *)
(* value or the error; an Option is a sequence of length 0 or 1.           *)
(***************************************************************************)
BitIndexErr == "Bit index must be in range 0-7"

\* impl TryFrom<u8> for BitIndex
BitIndex_try_from(value) ==
    CASE value = 0 -> [ok |-> TRUE, v |-> "Bit0"]
      [] value = 1 -> [ok |-> TRUE, v |-> "Bit1"]
      [] value = 2 -> [ok |-> TRUE, v |-> "Bit2"]
      [] value = 3 -> [ok |-> TRUE, v |-> "Bit3"]
      [] value = 4 -> [ok |-> TRUE, v |-> "Bit4"]
      [] value = 5 -> [ok |-> TRUE, v |-> "Bit5"]
      [] value = 6 -> [ok |-> TRUE, v |-> "Bit6"]
      [] value = 7 -> [ok |-> TRUE, v |-> "Bit7"]
      [] OTHER -> [ok |-> FALSE, v |-> BitIndexErr]

\* BitIndex::position, which is u8::from(BitIndex)
BitIndex_position(bit_index) ==
    CASE bit_index = "Bit0" -> 0
      [] bit_index = "Bit1" -> 1
      [] bit_index = "Bit2" -> 2
      [] bit_index = "Bit3" -> 3
      [] bit_index = "Bit4" -> 4
      [] bit_index = "Bit5" -> 5
      [] bit_index = "Bit6" -> 6
      [] bit_index = "Bit7" -> 7

\* Fault variant: a seed wins over a password
to_lsb_config_seed_first(pattern, password, seed, bit_index) ==
    LET config0 == IF pattern = "Linear" THEN LSBConfig_linear ELSE LSBConfig_random
        b == IF bit_index # <<>> THEN BitIndex_try_from(bit_index[1]) ELSE [ok |-> TRUE, v |-> "Bit0"]
        config1 == IF bit_index # <<>> /\ b.ok
                   THEN with_bit_index(config0, BitIndex_position(b.v)) ELSE config0
    IN  IF ~b.ok THEN [ok |-> FALSE, v |-> "BitIndex"]
        ELSE IF pattern = "Random"
        THEN IF seed # <<>>
             THEN IF Len(seed[1]) # SEED_SIZE THEN [ok |-> FALSE, v |-> "SeedLength"]
                  ELSE [ok |-> TRUE, v |-> with_seed(config1, seed[1])]
             ELSE IF password # <<>>
             THEN [ok |-> TRUE, v |-> with_password(config1, password[1])]
             ELSE [ok |-> TRUE, v |-> config1]
        ELSE IF password # <<>> \/ seed # <<>> THEN [ok |-> FALSE, v |-> "NotRandom"]
        ELSE [ok |-> TRUE, v |-> config1]

\* LSBPatternArg::to_lsb_config
to_lsb_config(pattern, password, seed, bit_index) ==
    LET config0 == IF pattern = "Linear" THEN LSBConfig_linear ELSE LSBConfig_random
        b == IF bit_index # <<>> THEN BitIndex_try_from(bit_index[1]) ELSE [ok |-> TRUE, v |-> "Bit0"]
        config1 == IF bit_index # <<>> /\ b.ok
                   THEN with_bit_index(config0, BitIndex_position(b.v)) ELSE config0
    IN  IF ~b.ok THEN [ok |-> FALSE, v |-> "BitIndex"]
        ELSE IF pattern = "Random"
        THEN IF password # <<>>
             THEN [ok |-> TRUE, v |-> with_password(config1, password[1])]
             ELSE IF seed # <<>>
             THEN IF Len(seed[1]) # SEED_SIZE THEN [ok |-> FALSE, v |-> "SeedLength"]
                  ELSE [ok |-> TRUE, v |-> with_seed(config1, seed[1])]
             ELSE [ok |-> TRUE, v |-> config1]
        ELSE IF password # <<>> \/ seed # <<>> THEN [ok |-> FALSE, v |-> "NotRandom"]
        ELSE [ok |-> TRUE, v |-> config1]

\* A Cli is [output, raw, extract, payload]: whether --output, --raw,
\* --extract and --payload were given.
\* Cli::validate
Cli_validate(cli) ==
    IF ~cli.output /\ ~cli.raw THEN [ok |-> FALSE, v |-> "NoOutputMethod"]
    ELSE IF ~cli.extract /\ ~cli.payload THEN [ok |-> FALSE, v |-> "NoPayload"]
    ELSE [ok |-> TRUE, v |-> cli]

\* Cli::parse: the argument parser refuses --output together with --raw
\* (conflicts_with) before any Cli value exists
Cli_parse(argv) ==
    IF argv.output /\ argv.raw THEN [ok |-> FALSE, v |-> "ArgumentConflict"]
    ELSE [ok |-> TRUE, v |-> argv]

\* Cli::parse_and_validate
Cli_parse_and_validate(argv) ==
    LET cli == Cli_parse(argv)
    IN  IF ~cli.ok THEN cli ELSE Cli_validate(cli.v)

(***************************************************************************)
(* The configuration paths in front of embed: the typed bit index, the     *)
(* command line, and the library builder LSBConfig::with_bit_index, which  *)
(* takes a raw u8.  call holds the last call and what it returned; embed   *)
(* then runs with the config a successful call produced.                   *)
(***************************************************************************)
\* Bit positions handed in as a raw u8: the callers' planes and two above 7
RawBitIndexes == BitIndices \cup {8, 200}

CliPasswords == {<<>>} \cup {<<p>> : p \in Passwords}

\* Seeds on the command line: none, one byte short, exact, one byte long
CliSeeds ==
    {<<>>} \cup {<<[i \in 1..n |-> 66]>> : n \in {SEED_SIZE - 1, SEED_SIZE, SEED_SIZE + 1}}

CliBitIndexes == {<<>>} \cup {<<v>> : v \in RawBitIndexes}

CliArgs == [output : BOOLEAN, raw : BOOLEAN, extract : BOOLEAN, payload : BOOLEAN]

CallTryFrom(value) ==
    /\ call' = [op |-> "try_from", value |-> value, out |-> BitIndex_try_from(value),
                u8 |-> IF BitIndex_try_from(value).ok
                       THEN <<BitIndex_position(BitIndex_try_from(value).v)>> ELSE <<>>]
    /\ UNCHANGED <<image_data, pc, payload, embedCfg, embedRes, extractCfg, extractRes,
                   preImage, flip, obf, second>>

CallToLsbConfig(pattern, password, seed, bit_index) ==
    /\ call' = [op |-> "to_lsb_config", pattern |-> pattern, password |-> password,
                seed |-> seed, bit_index |-> bit_index,
                out |-> to_lsb_config(pattern, password, seed, bit_index)]
    /\ UNCHANGED <<image_data, pc, payload, embedCfg, embedRes, extractCfg, extractRes,
                   preImage, flip, obf, second>>

\* The library caller's LSBConfig::...().with_bit_index(index)
CallWithBitIndex(config, index) ==
    /\ call' = [op |-> "with_bit_index", index |-> index,
                out |-> [ok |-> TRUE, v |-> with_bit_index(config, index)]]
    /\ UNCHANGED <<image_data, pc, payload, embedCfg, embedRes, extractCfg, extractRes,
                   preImage, flip, obf, second>>

CallValidate(cli) ==
    /\ call' = [op |-> "validate", cli |-> cli, out |-> Cli_validate(cli)]
    /\ UNCHANGED <<image_data, pc, payload, embedCfg, embedRes, extractCfg, extractRes,
                   preImage, flip, obf, second>>

CallParseAndValidate(argv) ==
    /\ call' = [op |-> "parse_and_validate", cli |-> argv, out |-> Cli_parse_and_validate(argv)]
    /\ UNCHANGED <<image_data, pc, payload, embedCfg, embedRes, extractCfg, extractRes,
                   preImage, flip, obf, second>>

\* LSBEmbedder::embed with the config the last call produced.  The bit codec
\* shifts a u8 by the bit position: for a position above 7 a build with
\* overflow checks panics at the first body bit, after the header is
\* written, and a build without them shifts by the position modulo 8.
EmbedConfigured(data, csprng, overflow_checks) ==
    /\ pc = "fresh"
    /\ call.op \in {"to_lsb_config", "with_bit_index"}
    /\ call.out.ok
    /\ LET config == call.out.v
           wrapped == with_bit_index(config, config.bit_index % 8)
           r == LSBEmbedder_embed(image_data, data, wrapped, csprng)
           H == HeaderBytes(config)
       IN  IF config.bit_index > 7 /\ overflow_checks /\ data # <<>> /\ r.res.tag = "ok"
           THEN /\ image_data' = SubSeq(r.image, 1, H) \o SubSeq(image_data, H + 1, Len(image_data))
                /\ embedRes' = [NoEmbedResult EXCEPT !.tag = "panic", !.err = Panic("shift_overflow")]
           ELSE /\ image_data' = r.image
                /\ embedRes' = r.res
    /\ preImage' = image_data
    /\ payload' = data
    /\ embedCfg' = call.out.v
    /\ pc' = "embedded"
    /\ UNCHANGED <<extractCfg, extractRes, flip, obf, second, call>>

NextCli ==
    \/ /\ call.op = "none"
       /\ \/ \E value \in 0..255 : CallTryFrom(value)
          \/ \E pattern \in {"Linear", "Random"}, password \in CliPasswords,
                seed \in CliSeeds, bit_index \in CliBitIndexes :
                 CallToLsbConfig(pattern, password, seed, bit_index)
          \/ \E config \in Patterns, index \in RawBitIndexes : CallWithBitIndex(config, index)
          \/ \E cli \in CliArgs : CallValidate(cli)
          \/ \E argv \in CliArgs : CallParseAndValidate(argv)
    \/ /\ pc = "fresh"
       /\ call.op # "none"
       /\ \E data \in Payloads, csprng \in CsprngSeeds, overflow_checks \in BOOLEAN :
              EmbedConfigured(data, csprng, overflow_checks)

SpecCli == InitOptions /\ [][NextCli]_vars

\* C23 as stated: only positions 0..7 are accepted.  BitIndex::try_from(v) is
\* Ok exactly when v <= 7, u8::from of the result is v for those, to_lsb_config
\* returns an error for an index above 7, and embed never runs with a bit
\* position outside 0..7.
C23_OnlyValidPositions ==
    /\ call.op = "try_from"
       => /\ call.out.ok <=> call.value <= 7
          /\ call.out.ok => call.u8 = <<call.value>>
    /\ (call.op = "to_lsb_config" /\ call.bit_index # <<>>)
       => (call.bit_index[1] > 7 => ~call.out.ok)
    /\ embedCfg # NoConfig => embedCfg.bit_index \in 0..7

\* embed ran, and succeeded, with bit position 8 set through
\* LSBConfig::with_bit_index
C23_EmbedRanWithPosition8 ==
    /\ pc = "embedded"
    /\ call.op = "with_bit_index"
    /\ embedCfg.bit_index = 8
    /\ payload # <<>>
    /\ embedRes.tag = "ok"
    /\ image_data # preImage

\* The last call was to_lsb_config with no bit index or one in 0..7
ToLsbConfigCalled ==
    /\ call.op = "to_lsb_config"
    /\ call.bit_index # <<>> => call.bit_index[1] <= 7

embed_next_body_first(at) ==
    CASE at = "split" -> "body_new"
      [] at = "body_new" -> "body"
      [] at = "body" -> "header"
      [] at = "header" -> "return"

\* The statement after at in LSBEmbedder::embed
embed_next(at) ==
    CASE at = "split" -> "header"
      [] at = "header" -> "body_new"
      [] at = "body_new" -> "body"
      [] at = "body" -> "return"

\* The statement after at in LSBEmbedder::extract
extract_next(at) ==
    CASE at = "fixed" -> "slice"
      [] at = "slice" -> "complete"
      [] at = "complete" -> "pattern"
      [] at = "pattern" -> "body_new"
      [] at = "body_new" -> "body"
      [] at = "body" -> "return"

\* Fault variant: the sample byte is replaced by the shifted bit
write_bit_overwrite(e, byte, bit_pos) ==
    IF e.index >= Len(e.indices) THEN [e EXCEPT !.panicked = TRUE]
    ELSE LET image_index == e.indices[e.index + 1]
             bit == BitAnd(Shr(byte, bit_pos), 1)
         IN  [e EXCEPT !.bytes[image_index + 1] = ShlU8(bit, e.target_bit_index),
                       !.index = e.index + 1]

\* One pass of the loop of write_u8
write_bit(e, byte, bit_pos) ==
    IF e.index >= Len(e.indices) THEN [e EXCEPT !.panicked = TRUE]
    ELSE LET image_index == e.indices[e.index + 1]
             bit == BitAnd(Shr(byte, bit_pos), 1)
         IN  [e EXCEPT !.bytes[image_index + 1] =
                           embed_bit(e.target_bit_index, e.bytes[image_index + 1], bit),
                       !.index = e.index + 1]

\* Fault variant: the bit that was read is cleared in the sample byte
read_bit_destructive(e, byte, bit_pos) ==
    IF e.index >= Len(e.indices) THEN [e |-> [e EXCEPT !.panicked = TRUE], byte |-> byte]
    ELSE LET image_index == e.indices[e.index + 1]
             bit == extract_bit(e.target_bit_index, e.bytes[image_index + 1])
         IN  [e |-> [e EXCEPT !.bytes[image_index + 1] =
                                  embed_bit(e.target_bit_index, e.bytes[image_index + 1], 0),
                              !.index = e.index + 1],
              byte |-> BitOr(byte, ShlU8(BitAnd(bit, 1), bit_pos))]

\* One pass of the loop of read_u8
read_bit(e, byte, bit_pos) ==
    IF e.index >= Len(e.indices) THEN [e |-> [e EXCEPT !.panicked = TRUE], byte |-> byte]
    ELSE LET image_index == e.indices[e.index + 1]
             bit == extract_bit(e.target_bit_index, e.bytes[image_index + 1])
         IN  [e |-> [e EXCEPT !.index = e.index + 1],
              byte |-> BitOr(byte, ShlU8(BitAnd(bit, 1), bit_pos))]

NoEmbedder == BodyEmbedder_new(<<>>, RuntimeLinear, 0)

StepBuffers ==
    {Fill(k, n) : k \in FillKinds,
                  n \in {FIXED_HEADER_SIZE - 1, FIXED_HEADER_SIZE + 8, MaxBufLen}}

StepReceived == {b \in ReceivedBuffers : Len(b) = FIXED_HEADER_SIZE + 8}

StepConfigs == Patterns \cup {with_bit_index(LSBConfig_linear, 7)}

InitSteps ==
    /\ \/ image_data \in StepBuffers /\ pc = "fresh"
       \/ image_data \in StepReceived /\ pc = "received"
    /\ payload = <<>>
    /\ embedCfg = NoConfig
    /\ embedRes = NoEmbedResult
    /\ extractCfg = NoConfig
    /\ extractRes = NoExtractResult
    /\ preImage = <<>>
    /\ flip = NoFlip
    /\ obf = NoObf
    /\ second = NoSecond
    /\ call = NoCall

\* embed is entered: from_config, required_size
EmbedBegin(data, config, csprng) ==
    /\ pc = "fresh"
    /\ LET pattern == from_config(config, csprng)
       IN  call' = [op |-> "embed", at |-> "split", pattern |-> pattern,
                    header_size |-> required_size(pattern), e |-> NoEmbedder,
                    j |-> 1, bit_pos |-> 0, log |-> <<>>]
    /\ payload' = data
    /\ embedCfg' = config
    /\ preImage' = image_data
    /\ pc' = "embedding"
    /\ UNCHANGED <<image_data, embedRes, extractCfg, extractRes, flip, obf, second>>

\* image_data.split_at_mut(header_size)
EmbedSplit ==
    /\ pc = "embedding" /\ call.at = "split"
    /\ IF Len(image_data) < call.header_size
       THEN /\ embedRes' = [NoEmbedResult EXCEPT !.tag = "panic", !.err = Panic("split_at_mut")]
            /\ pc' = "embedded"
            /\ call' = [call EXCEPT !.at = "unwound"]
       ELSE /\ call' = [call EXCEPT !.at = embed_next("split")]
            /\ UNCHANGED <<embedRes, pc>>
    /\ UNCHANGED <<image_data, payload, embedCfg, extractCfg, extractRes, preImage, flip, obf,
                   second>>

\* HeaderEmbedder::new(header_data, ..).embed(payload.len())
EmbedHeader ==
    /\ pc = "embedding" /\ call.at = "header"
    /\ LET h == HeaderEmbedder_embed(SubSeq(image_data, 1, call.header_size), call.pattern,
                                     Len(payload))
       IN  IF h.err # "Ok"
           THEN /\ embedRes' = [NoEmbedResult EXCEPT !.tag = "err",
                                                     !.err = From_HeaderError(h.err)]
                /\ pc' = "embedded"
                /\ call' = [call EXCEPT !.at = "returned"]
                /\ UNCHANGED image_data
           ELSE /\ image_data' = h.bytes
                                     \o SubSeq(image_data, call.header_size + 1, Len(image_data))
                /\ call' = [call EXCEPT
                               !.at = embed_next("header"),
                               !.log = @ \o [i \in 1..h.pos |->
                                                [kind |-> "header", index |-> i - 1]]]
                /\ UNCHANGED <<embedRes, pc>>
    /\ UNCHANGED <<payload, embedCfg, extractCfg, extractRes, preImage, flip, obf, second>>

\* BodyEmbedder::new(body_data, pattern, bit_index)
EmbedBodyNew ==
    /\ pc = "embedding" /\ call.at = "body_new"
    /\ call' = [call EXCEPT !.at = embed_next("body_new"),
                            !.e = BodyEmbedder_new(
                                      SubSeq(image_data, call.header_size + 1, Len(image_data)),
                                      call.pattern, embedCfg.bit_index)]
    /\ UNCHANGED <<image_data, pc, payload, embedCfg, embedRes, extractCfg, extractRes, preImage,
                   flip, obf, second>>

\* embed_payload: one pass of write_u8's loop for payload byte j, or the end
\* of the iteration over the payload
EmbedBodyBit ==
    /\ pc = "embedding" /\ call.at = "body"
    /\ IF call.j > Len(payload)
       THEN /\ call' = [call EXCEPT !.at = embed_next("body")]
            /\ UNCHANGED <<image_data, embedRes, pc>>
       ELSE LET e2 == write_bit(call.e, payload[call.j], call.bit_pos)
            IN  IF e2.panicked
                THEN /\ embedRes' = [NoEmbedResult EXCEPT !.tag = "panic",
                                                          !.err = Panic("write_u8")]
                     /\ pc' = "embedded"
                     /\ call' = [call EXCEPT !.at = "unwound"]
                     /\ UNCHANGED image_data
                ELSE /\ image_data' = SubSeq(image_data, 1, Len(image_data) - Len(e2.bytes))
                                          \o e2.bytes
                     /\ call' = [call EXCEPT
                                    !.e = e2,
                                    !.j = IF call.bit_pos = 7 THEN @ + 1 ELSE @,
                                    !.bit_pos = (call.bit_pos + 1) % 8,
                                    !.log = Append(@, [kind |-> "body",
                                                       index |-> Len(image_data) - Len(e2.bytes)
                                                                 + call.e.indices[call.e.index + 1]])]
                     /\ UNCHANGED <<embedRes, pc>>
    /\ UNCHANGED <<payload, embedCfg, extractCfg, extractRes, preImage, flip, obf, second>>

\* Ok(EmbedResult { .. })
EmbedReturn ==
    /\ pc = "embedding" /\ call.at = "return"
    /\ embedRes' = [tag |-> "ok", err |-> NoError,
                    bytes_used |-> call.header_size + Len(payload) * 8,
                    header_size |-> call.header_size,
                    seed_embedded |-> call.pattern.embed_seed]
    /\ call' = [call EXCEPT !.at = "returned"]
    /\ pc' = "embedded"
    /\ UNCHANGED <<image_data, payload, embedCfg, extractCfg, extractRes, preImage, flip, obf,
                   second>>

\* extract returns early with an Err value or unwinds
ExtractLeave(tag, err) ==
    /\ extractRes' = [NoExtractResult EXCEPT !.tag = tag, !.err = err]
    /\ pc' = "extracted"
    /\ call' = [call EXCEPT !.at = IF tag = "panic" THEN "unwound" ELSE "returned"]

\* extract is entered.  A finished extract may be repeated once with the
\* same configuration; second then keeps what the first call returned.
ExtractBegin(config) ==
    /\ pc \in {"fresh", "received", "embedded", "extracted"}
    /\ pc = "extracted" => second = NoSecond /\ config = extractCfg
    /\ second' = IF pc = "extracted" THEN [image |-> call.before, res |-> extractRes]
                 ELSE second
    /\ call' = [op |-> "extract", at |-> "fixed", before |-> image_data,
                fixed |-> NoFixed, header_size |-> 0, seed |-> <<>>,
                e |-> NoEmbedder, size |-> 0, out |-> <<>>, byte |-> 0, bit_pos |-> 0,
                log |-> <<>>]
    /\ extractCfg' = config
    /\ extractRes' = NoExtractResult
    /\ pc' = "extracting"
    /\ UNCHANGED <<image_data, payload, embedCfg, embedRes, preImage, flip, obf>>

\* Phase 1: FixedHeader::read_from_bytes(image_data)
ExtractFixed ==
    /\ pc = "extracting" /\ call.at = "fixed"
    /\ LET f == FixedHeader_read_from_bytes(image_data)
       IN  IF f.err # "Ok"
           THEN ExtractLeave("err", From_HeaderError(f.err))
           ELSE /\ call' = [call EXCEPT
                               !.at = extract_next("fixed"),
                               !.fixed = f.fixed,
                               !.header_size = calculate_total_header_size(f.fixed),
                               !.log = Append(@, [kind |-> "fixed",
                                                  index |-> FIXED_HEADER_SIZE])]
                /\ UNCHANGED <<extractRes, pc>>
    /\ UNCHANGED <<image_data, payload, embedCfg, embedRes, extractCfg, preImage, flip, obf,
                   second>>

\* &image_data[..header_size]
ExtractSlice ==
    /\ pc = "extracting" /\ call.at = "slice"
    /\ IF Len(image_data) < call.header_size
       THEN ExtractLeave("panic", Panic("slice_index"))
       ELSE /\ call' = [call EXCEPT !.at = extract_next("slice")]
            /\ UNCHANGED <<extractRes, pc>>
    /\ UNCHANGED <<image_data, payload, embedCfg, embedRes, extractCfg, preImage, flip, obf,
                   second>>

\* Phase 2: CompleteHeader::read_from_bytes(header_data)
ExtractComplete ==
    /\ pc = "extracting" /\ call.at = "complete"
    /\ LET c == CompleteHeader_read_from_bytes(SubSeq(image_data, 1, call.header_size))
       IN  IF c.err # "Ok"
           THEN ExtractLeave("err", From_HeaderError(c.err))
           ELSE /\ call' = [call EXCEPT
                               !.at = extract_next("complete"),
                               !.fixed = c.fixed,
                               !.seed = c.seed,
                               !.log = Append(@, [kind |-> "complete",
                                                  index |-> call.header_size])]
                /\ UNCHANGED <<extractRes, pc>>
    /\ UNCHANGED <<image_data, payload, embedCfg, embedRes, extractCfg, preImage, flip, obf,
                   second>>

\* Phase 3: RuntimePattern::from_header_and_config(&header, &self.config)
\* and BodyEmbedder::new over &mut image_data[header_size..]
ExtractPattern ==
    /\ pc = "extracting" /\ call.at = "pattern"
    /\ LET rp == from_header_and_config([fixed |-> call.fixed, seed |-> call.seed], extractCfg)
       IN  IF rp.err # NoError
           THEN ExtractLeave("err", rp.err)
           ELSE /\ call' = [call EXCEPT
                               !.at = extract_next(extract_next("pattern")),
                               !.e = BodyEmbedder_new(
                                         SubSeq(image_data, call.header_size + 1,
                                                Len(image_data)),
                                         rp.pattern, extractCfg.bit_index),
                               !.size = from_be_bytes(call.fixed.payload_size),
                               !.log = Append(@, [kind |-> "pattern", index |-> 0])]
                /\ UNCHANGED <<extractRes, pc>>
    /\ UNCHANGED <<image_data, payload, embedCfg, embedRes, extractCfg, preImage, flip, obf,
                   second>>

\* Phase 4: extract_payload: one pass of read_u8's loop, or the end of the
\* loop over 0..size
ExtractBodyBit ==
    /\ pc = "extracting" /\ call.at = "body"
    /\ IF Len(call.out) >= call.size
       THEN /\ call' = [call EXCEPT !.at = extract_next("body")]
            /\ UNCHANGED <<image_data, extractRes, pc>>
       ELSE LET r == read_bit(call.e, call.byte, call.bit_pos)
            IN  IF r.e.panicked
                THEN /\ ExtractLeave("panic", Panic("read_u8"))
                     /\ UNCHANGED image_data
                ELSE /\ image_data' = SubSeq(image_data, 1, call.header_size) \o r.e.bytes
                     /\ call' = [call EXCEPT
                                    !.e = r.e,
                                    !.byte = IF call.bit_pos = 7 THEN 0 ELSE r.byte,
                                    !.out = IF call.bit_pos = 7 THEN Append(@, r.byte) ELSE @,
                                    !.bit_pos = (call.bit_pos + 1) % 8,
                                    !.log = Append(@, [kind |-> "body_read",
                                                       index |-> call.header_size
                                                                 + call.e.indices[call.e.index + 1]])]
                     /\ UNCHANGED <<extractRes, pc>>
    /\ UNCHANGED <<payload, embedCfg, embedRes, extractCfg, preImage, flip, obf, second>>

\* Ok(ExtractResult { .. })
ExtractReturn ==
    /\ pc = "extracting" /\ call.at = "return"
    /\ extractRes' = [tag |-> "ok", err |-> NoError, payload |-> call.out,
                      header_size |-> call.header_size,
                      seed_was_embedded |-> contains(call.fixed.flags, SEED_EMBEDDED)]
    /\ call' = [call EXCEPT !.at = "returned"]
    /\ pc' = "extracted"
    /\ UNCHANGED <<image_data, payload, embedCfg, embedRes, extractCfg, preImage, flip, obf,
                   second>>

NextSteps ==
    \/ pc = "fresh" /\ \E data \in Payloads, config \in StepConfigs, csprng \in CsprngSeeds :
           EmbedBegin(data, config, csprng)
    \/ EmbedSplit
    \/ EmbedHeader
    \/ EmbedBodyNew
    \/ EmbedBodyBit
    \/ EmbedReturn
    \/ pc \in {"fresh", "received", "embedded", "extracted"}
       /\ \E config \in {embedCfg, extractCfg, LSBConfig_linear} \ {NoConfig} :
              ExtractBegin(config)
    \/ ExtractFixed
    \/ ExtractSlice
    \/ ExtractComplete
    \/ ExtractPattern
    \/ ExtractBodyBit
    \/ ExtractReturn

SpecSteps == InitSteps /\ [][NextSteps]_vars

LogIndexes(kind) == {i \in 1..Len(call.log) : call.log[i].kind = kind}

\* C25: within one call of embed every header byte is written before the
\* first body bit is written; within one call of extract the fixed header,
\* the complete header (seed read) and the seed/pattern reconstruction are
\* all done before the first body sample is read, and a call that returns a
\* header error has read no body sample.
C25_HeaderBeforeBody ==
    /\ call.op = "embed" =>
           \A i \in LogIndexes("body") :
               /\ i > call.header_size
               /\ \A k \in 1..call.header_size :
                      call.log[k] = [kind |-> "header", index |-> k - 1]
               /\ \A k \in LogIndexes("header") : k < i
    /\ call.op = "extract" =>
           /\ \A i \in LogIndexes("body_read") :
                  /\ i > 3
                  /\ call.log[1].kind = "fixed"
                  /\ call.log[2].kind = "complete"
                  /\ call.log[3].kind = "pattern"
           /\ extractRes.tag = "err" => LogIndexes("body_read") = {}

\* A stepwise embed of a non-empty payload returned Ok and a stepwise
\* extract then read the payload back
C25_Witness ==
    /\ pc = "extracted"
    /\ call.op = "extract"
    /\ embedRes.tag = "ok"
    /\ extractRes.tag = "ok"
    /\ Len(payload) > 0
    /\ extractRes.payload = payload
    /\ LogIndexes("body_read") # {}

\* C26: extract leaves the sample buffer as it found it, whether it returns
\* Ok, returns an error or unwinds, and a repeated extract with the same
\* configuration returns what the first one returned.
C26_ExtractReadOnly ==
    /\ call.op = "extract" => image_data = call.before
    /\ (call.op = "extract" /\ pc = "extracted" /\ second # NoSecond) =>
           /\ image_data = second.image
           /\ extractRes = second.res

\* The repeated extract of a non-empty payload has returned
C26_Witness ==
    /\ call.op = "extract"
    /\ pc = "extracted"
    /\ second # NoSecond
    /\ extractRes.tag = "ok"
    /\ Len(extractRes.payload) > 0

\* C27: the samples touched for payload bits are pairwise distinct and lie
\* in [header_size, len); a successful embed or extract touched exactly
\* 8 * payload_size of them; the samples touched for the header lie in
\* [0, header_size).
C27_IndexSequence ==
    call.op \in {"embed", "extract"} =>
        LET body == LogIndexes("body") \cup LogIndexes("body_read")
        IN  /\ \A i, k \in body : i # k => call.log[i].index # call.log[k].index
            /\ \A i \in body : /\ call.log[i].index >= call.header_size
                               /\ call.log[i].index < Len(image_data)
            /\ \A i \in LogIndexes("header") : /\ call.log[i].index >= 0
                                               /\ call.log[i].index < call.header_size
            /\ (call.op = "embed" /\ pc = "embedded" /\ embedRes.tag = "ok") =>
                   Cardinality(body) = 8 * Len(payload)
            /\ (call.op = "extract" /\ pc = "extracted" /\ extractRes.tag = "ok") =>
                   Cardinality(body) = 8 * Len(extractRes.payload)

\* A stepwise embed with a Random pattern wrote two payload bytes
C27_Witness ==
    /\ call.op = "embed"
    /\ pc = "embedded"
    /\ embedRes.tag = "ok"
    /\ call.pattern.kind = "Random"
    /\ Len(payload) = 2
    /\ Cardinality(LogIndexes("body")) = 16

\* The byte whose bit k is the target bit of sample byte base + k (0-based)
ByteFromSamples(bit_index, base) ==
    LET b(k) == BitOf(image_data[base + k + 1], bit_index)
    IN  b(0) + 2 * b(1) + 4 * b(2) + 8 * b(3) + 16 * b(4) + 32 * b(5) + 64 * b(6) + 128 * b(7)

\* C28: after a successful embed with the Linear pattern, bit k (least
\* significant first) of payload byte j is the target bit of sample byte
\* header_size + 8*j + k; a successful extract from a buffer whose header
\* says Linear returns, as byte j, the bits of sample bytes
\* header_size + 8*j + k shifted left by k and OR-ed together.
C28_LinearLayout ==
    /\ (pc = "embedded" /\ embedRes.tag = "ok" /\ embedCfg.pattern = "Linear") =>
           \A j \in 0..(Len(payload) - 1) : \A k \in 0..7 :
               BitOf(image_data[embedRes.header_size + 8 * j + k + 1], embedCfg.bit_index)
                   = BitOf(payload[j + 1], k)
    /\ (pc = "extracted" /\ extractRes.tag = "ok"
        /\ ~contains(StoredFlags, RANDOM_PATTERN)) =>
           \A j \in 0..(Len(extractRes.payload) - 1) :
               extractRes.payload[j + 1]
                   = ByteFromSamples(extractCfg.bit_index, extractRes.header_size + 8 * j)

\* Two Linear bytes were written at a bit index other than 0 and read back
C28_Witness ==
    /\ pc = "extracted"
    /\ embedRes.tag = "ok"
    /\ embedCfg.pattern = "Linear"
    /\ embedCfg.bit_index = 3
    /\ extractCfg = embedCfg
    /\ extractRes.tag = "ok"
    /\ flip = NoFlip
    /\ payload = <<105, 150>>
    /\ extractRes.payload = payload

\* The samples an embed call selected for its payload, as buffer indices
SelectedSamples ==
    {call.header_size + call.e.indices[i] : i \in 1..(8 * Len(payload))}

\* C29: after a successful embed, in the body region the sample bytes
\* outside the 8 * len(payload) selected ones are as before the call, a
\* selected sample byte differs from its old value at most in the bit at
\* bit_index, and the selected sample bytes are 8 * len(payload) different
\* ones, each holding one payload bit.
C29_EmbedBodyFrame ==
    (call.op = "embed" /\ pc = "embedded" /\ embedRes.tag = "ok") =>
        /\ \A p \in call.header_size..(Len(image_data) - 1) :
               IF p \in SelectedSamples
               THEN \A b \in BitIndexAll \ {embedCfg.bit_index} :
                        BitOf(image_data[p + 1], b) = BitOf(preImage[p + 1], b)
               ELSE image_data[p + 1] = preImage[p + 1]
        /\ Cardinality(SelectedSamples) = 8 * Len(payload)
        /\ \A i \in 1..(8 * Len(payload)) :
               BitOf(image_data[call.header_size + call.e.indices[i] + 1], embedCfg.bit_index)
                   = BitOf(payload[((i - 1) \div 8) + 1], (i - 1) % 8)

\* A Random embed at bit index 7 changed a selected sample and left
\* unselected body samples
C29_Witness ==
    /\ call.op = "embed"
    /\ pc = "embedded"
    /\ embedRes.tag = "ok"
    /\ call.pattern.kind = "Random"
    /\ Len(payload) = 1
    /\ image_data # preImage
    /\ \E p \in call.header_size..(Len(image_data) - 1) : p \notin SelectedSamples
    /\ \E p \in SelectedSamples : image_data[p + 1] # preImage[p + 1]

(***************************************************************************)
(* Length-prefixed LSBStrategy (strategy/lsb.rs): a cursor over the whole  *)
(* sample buffer, no header, the payload length stored as four bytes in    *)
(* the bit plane in front of the payload.  Indexing image_data past its    *)
(* end unwinds the call.                                                    *)
(*   pc = "reading"  inside read_to_end of LSBStrategy::extract_payload    *)
(***************************************************************************)
LSBStrategy_new(image, target_bit_index) ==
    [index |-> 0, image_data |-> image, target_bit_index |-> target_bit_index,
     panicked |-> FALSE]

\* LSBStrategy::write_u8 from bit position bit_pos on
RECURSIVE LSBStrategy_write_u8_from(_, _, _)
LSBStrategy_write_u8_from(s, byte, bit_pos) ==
    IF bit_pos >= 8 \/ s.panicked THEN s
    ELSE IF s.index >= Len(s.image_data) THEN [s EXCEPT !.panicked = TRUE]
    ELSE LET bit == Shr(byte, bit_pos)
         IN  LSBStrategy_write_u8_from(
                 [s EXCEPT !.image_data[s.index + 1] =
                               embed_bit(s.target_bit_index, s.image_data[s.index + 1], bit),
                           !.index = s.index + 1],
                 byte, bit_pos + 1)

\* impl Write: buf.iter().for_each(|byte| self.write_u8(*byte))
RECURSIVE LSBStrategy_write_from(_, _, _)
LSBStrategy_write_from(s, buf, k) ==
    IF k > Len(buf) \/ s.panicked THEN s
    ELSE LSBStrategy_write_from(LSBStrategy_write_u8_from(s, buf[k], 0), buf, k + 1)

LSBStrategy_write(s, buf) == LSBStrategy_write_from(s, buf, 1)

\* LSBStrategy::read_u8 from bit position bit_index on
RECURSIVE LSBStrategy_read_u8_from(_, _, _)
LSBStrategy_read_u8_from(s, byte, bit_index) ==
    IF bit_index >= 8 \/ s.panicked THEN [s |-> s, byte |-> byte]
    ELSE IF s.index >= Len(s.image_data)
    THEN [s |-> [s EXCEPT !.panicked = TRUE], byte |-> byte]
    ELSE LET bit == extract_bit(s.target_bit_index, s.image_data[s.index + 1])
         IN  LSBStrategy_read_u8_from([s EXCEPT !.index = s.index + 1],
                                      BitOr(ShlU8(bit, bit_index), byte), bit_index + 1)

\* impl Read: every byte of a buffer of n bytes is filled, n is returned
RECURSIVE LSBStrategy_read_from(_, _, _)
LSBStrategy_read_from(s, n, buf) ==
    IF Len(buf) >= n \/ s.panicked THEN [s |-> s, buf |-> buf, n |-> n]
    ELSE LET r == LSBStrategy_read_u8_from(s, 0, 0)
         IN  LSBStrategy_read_from(r.s, n, Append(buf, r.byte))

LSBStrategy_read(s, n) == LSBStrategy_read_from(s, n, <<>>)

\* ((image_data.len() - size_of::<PayloadSize>()) / 8) as PayloadSize.  The
\* subtraction is on usize: below four samples it unwinds where overflow
\* checks are on and wraps where they are off (a 32-bit usize here; with 64
\* bits the wrapped capacity is 4294967295).
max_capacity(s, overflow_checks) ==
    IF Len(s.image_data) >= PAYLOAD_SIZE_SIZE
    THEN [panicked |-> FALSE, v |-> (Len(s.image_data) - PAYLOAD_SIZE_SIZE) \div 8]
    ELSE IF overflow_checks THEN [panicked |-> TRUE, v |-> 0]
    ELSE [panicked |-> FALSE,
          v |-> (Pow2(30) - (PAYLOAD_SIZE_SIZE - Len(s.image_data))) \div 2]

NoLegacyResult == [tag |-> "none", err |-> NoError, payload |-> <<>>]

PayloadTooLarge == [variant |-> "PayloadTooLarge", cause |-> "None"]

\* LSBStrategy::embed_payload
LSBStrategy_embed_payload(s, payload_data, overflow_checks) ==
    LET cap == max_capacity(s, overflow_checks)
    IN  IF cap.panicked
        THEN [image |-> s.image_data,
              res |-> [NoLegacyResult EXCEPT !.tag = "panic", !.err = Panic("sub_overflow")]]
        ELSE IF Len(payload_data) > cap.v
        THEN [image |-> s.image_data,
              res |-> [NoLegacyResult EXCEPT !.tag = "err", !.err = PayloadTooLarge]]
        ELSE LET s1 == LSBStrategy_write(s, to_be_bytes(Len(payload_data)))
                 s2 == LSBStrategy_write(s1, payload_data)
             IN  IF s2.panicked
                 THEN [image |-> s2.image_data,
                       res |-> [NoLegacyResult EXCEPT !.tag = "panic",
                                                      !.err = Panic("index_out_of_bounds")]]
                 ELSE [image |-> s2.image_data, res |-> [NoLegacyResult EXCEPT !.tag = "ok"]]

\* The buffers, bit planes and read sizes of the callers of LSBStrategy.
\* read_to_end hands read a non-empty buffer each time: its 32-byte probe or
\* the spare capacity of the vector.
LegacyBuffers == {Fill(k, n) : k \in FillKinds, n \in {3, 12, 32, 36, 40, 48, 56}}

LegacyBitIndexes == {0, 7}

ReadSizes == {1, 2, 32}

\* LSBStrategy::new(image_data, options).embed_payload(data)
LegacyEmbed(data, target_bit_index, overflow_checks) ==
    /\ pc = "fresh"
    /\ LET r == LSBStrategy_embed_payload(LSBStrategy_new(image_data, target_bit_index), data,
                                          overflow_checks)
       IN  /\ image_data' = r.image
           /\ call' = [op |-> "embed_payload", target_bit_index |-> target_bit_index,
                       res |-> r.res]
    /\ preImage' = image_data
    /\ payload' = data
    /\ pc' = "embedded"
    /\ UNCHANGED <<embedCfg, embedRes, extractCfg, extractRes, flip, obf, second>>

\* LSBStrategy::new(image_data, options).extract_payload() up to the call of
\* read_to_end: read_payload_size, the capacity check, Vec::with_capacity
LegacyExtractBegin(target_bit_index, overflow_checks) ==
    /\ pc \in {"fresh", "embedded"}
    /\ LET r == LSBStrategy_read(LSBStrategy_new(image_data, target_bit_index),
                                 PAYLOAD_SIZE_SIZE)
           cap == max_capacity(r.s, overflow_checks)
           frame == [op |-> "extract_payload", embedded |-> call, s |-> r.s,
                     payload_length |-> <<0, 0, 0, 0>>, out |-> <<>>,
                     res |-> NoLegacyResult]
       IN  IF r.s.panicked
           THEN /\ call' = [frame EXCEPT !.res.tag = "panic",
                                         !.res.err = Panic("index_out_of_bounds")]
                /\ pc' = "extracted"
           ELSE IF cap.panicked
           THEN /\ call' = [frame EXCEPT !.res.tag = "panic",
                                         !.res.err = Panic("sub_overflow")]
                /\ pc' = "extracted"
           ELSE IF r.buf[1] # 0 \/ r.buf[2] # 0 \/ from_be_bytes(<<0, 0>> \o SubSeq(r.buf, 3, 4)) > cap.v
           THEN /\ call' = [frame EXCEPT !.payload_length = r.buf,
                                         !.res.tag = "err", !.res.err = PayloadTooLarge]
                /\ pc' = "extracted"
           ELSE /\ call' = [frame EXCEPT !.payload_length = r.buf]
                /\ pc' = "reading"
    /\ UNCHANGED <<image_data, payload, embedCfg, embedRes, extractCfg, extractRes, preImage, flip,
                   obf, second>>

\* read_to_end: one call of read with a buffer of n bytes; a return of 0
\* ends the loop
LegacyRead(n) ==
    /\ pc = "reading"
    /\ LET r == LSBStrategy_read(call.s, n)
       IN  IF r.s.panicked
           THEN /\ call' = [call EXCEPT !.s = r.s, !.res.tag = "panic",
                                        !.res.err = Panic("index_out_of_bounds")]
                /\ pc' = "extracted"
           ELSE IF r.n = 0
           THEN /\ call' = [call EXCEPT !.res.tag = "ok", !.res.payload = call.out]
                /\ pc' = "extracted"
           ELSE /\ call' = [call EXCEPT !.s = r.s, !.out = @ \o r.buf]
                /\ pc' = "reading"
    /\ UNCHANGED <<image_data, payload, embedCfg, embedRes, extractCfg, extractRes, preImage, flip,
                   obf, second>>

InitLegacy ==
    /\ image_data \in LegacyBuffers
    /\ pc = "fresh"
    /\ payload = <<>>
    /\ embedCfg = NoConfig
    /\ embedRes = NoEmbedResult
    /\ extractCfg = NoConfig
    /\ extractRes = NoExtractResult
    /\ preImage = <<>>
    /\ flip = NoFlip
    /\ obf = NoObf
    /\ second = NoSecond
    /\ call = NoCall

NextLegacy ==
    \/ pc = "fresh" /\ \E data \in Payloads, b \in LegacyBitIndexes, oc \in BOOLEAN :
           LegacyEmbed(data, b, oc)
    \/ pc \in {"fresh", "embedded"}
       /\ \E b \in (IF pc = "embedded" THEN {call.target_bit_index} ELSE LegacyBitIndexes),
             oc \in BOOLEAN :
              LegacyExtractBegin(b, oc)
    \/ pc = "reading" /\ \E n \in ReadSizes : LegacyRead(n)

SpecLegacy == InitLegacy /\ [][NextLegacy]_vars

\* (len(image) - 4) / 8 for the buffer the embed was given
LegacyCapacity == (Len(preImage) - PAYLOAD_SIZE_SIZE) \div 8

\* C30: LSBStrategy::embed_payload of a payload of at most
\* (len(image) - 4) / 8 bytes returns Ok without indexing past the end of the
\* buffer, and LSBStrategy::extract_payload on the resulting buffer returns
\* exactly that payload; a longer payload is rejected with PayloadTooLarge
\* and the buffer is left as it was.
C30_LegacyRoundTrip ==
    /\ (call.op = "embed_payload" /\ Len(preImage) >= PAYLOAD_SIZE_SIZE) =>
           IF Len(payload) <= LegacyCapacity
           THEN call.res.tag = "ok"
           ELSE /\ call.res = [NoLegacyResult EXCEPT !.tag = "err", !.err = PayloadTooLarge]
                /\ image_data = preImage
    /\ (/\ call.op = "extract_payload"
        /\ pc = "extracted"
        /\ call.embedded # NoCall
        /\ call.embedded.res.tag = "ok") =>
           /\ call.res.tag = "ok"
           /\ call.res.payload = payload

\* embed_payload returned Ok and extract_payload on the buffer it wrote
\* unwound inside read_to_end
C30_ExtractUnwinds ==
    /\ call.op = "extract_payload"
    /\ pc = "extracted"
    /\ call.embedded # NoCall
    /\ call.embedded.res.tag = "ok"
    /\ Len(payload) > 0
    /\ Len(call.out) >= Len(payload)
    /\ SubSeq(call.out, 1, Len(payload)) = payload
    /\ call.res.tag = "panic"

====
